---- MODULE Spec2Model ----
(***************************************************************************)
(* Verification model of the eniris telemetry driver.                      *)
(*                                                                         *)
(* Part G: the background transmitter                                      *)
(*   src/eniris/telemessage/writer/background.py                           *)
(* BackgroundTelemessageWriter owns one BackgroundTelemessageWriterDaemon  *)
(* thread.  Callers append to _new_messages under _lock; the worker moves  *)
(* them to the heap _pending_messages, POSTs them one at a time, retries,  *)
(* caps the heap and snapshots pending messages to a folder.               *)
(*                                                                         *)
(* The worker is modelled one step per place where another thread can      *)
(* interleave; the callers' critical sections (with self._lock) are single *)
(* steps.  Time is a discrete clock `now` shared by time() and             *)
(* datetime.now().                                                         *)
(***************************************************************************)
EXTENDS Integers, Sequences, FiniteSets, Bags, TLC

\* ---------------------------------------------------------------- bounds
\* Number of writeTelemessage calls over a behaviour.
MaxMsgs == 2
\* Last value of the clock.
MaxTime == 2

\* ------------------------------------------------- constructor arguments
\* maximumRetries (default 4), initialRetryDelayS (default 1),
\* maximumRetryDelayS (default 60), snapshotPeriodS (default 3600.0): the
\* model runs the transmitter with small values of the same arguments.
maximumRetries == 2
initialRetryDelayS == 1
maximumRetryDelayS == 2
snapshot_period_s == 1
\* driver.DEFAULT_RETRY_CODES: 429, 500, 503
retryStatusCodes == {"429", "500", "503"}

\* "None" for the optional numbers (wait_timeout_s, maxHeapSize).
None == 0 - 1

\* What one call of session.post (with the authorization callback before it)
\* can produce: a status code, requests.Timeout, requests.ConnectionError,
\* another exception raised by the session, or an exception raised by
\* authorizationHeaderFunction before anything is sent.
StatusCodes == {"204", "400", "503"}
Responses == StatusCodes \cup {"Timeout", "ConnectionError", "Exception", "AuthException"}

\* The retry-eligible outcomes, as the claims name them (independent of the
\* branch structure of __send).
RetryEligible == (StatusCodes \cap retryStatusCodes) \cup {"Timeout", "ConnectionError"}

\* The kind of an answer, kept in the history: acknowledged, retry-eligible,
\* a status that is neither, or an unexpected exception.
Kind(resp) ==
    IF resp = "204" THEN "ack"
    ELSE IF resp \in RetryEligible THEN "retry"
    ELSE IF resp \in StatusCodes THEN "permanent"
    ELSE "exception"

SubIds == 1..MaxMsgs
Time == 0..MaxTime

VARIABLES
    now,                      \* the clock
    snapshot_folder,          \* TRUE iff a snapshotFolder is configured
    max_heap_size,            \* maxHeapSize, None if not configured
    min_snapshot_age_s,       \* minimumSnaphotAgeS
    subIdCnt,                 \* TelemessageWrapper._subIdCnt
    new_messages,             \* daemon._new_messages
    pending_messages,         \* daemon._pending_messages (heap array)
    stop_signal,              \* daemon._stop_signal
    has_new_messages_or_stop, \* daemon._has_new_messages_or_stop
    no_messages_left,         \* daemon._no_messages_left
    next_snapshot_moment,     \* daemon._next_snapshot_moment
    folder,                   \* the file names in the snapshot folder
    worker_pc,                \* position of the worker thread in run/__get_next
    wait_timeout_s,           \* __get_next: when the wait times out, None = never or not waiting
    tmw,                      \* run: the wrapper being sent, <<>> if none
    close_pc,                 \* the client thread inside BackgroundTelemessageWriter.close
    flush_pc,                 \* the client thread inside daemon.flush
    restarted,                \* TRUE once a second transmitter was created on the folder
    posts,                    \* history: POSTs of each message by this worker instance
    last_resp,                \* history: the kind of the last answer to each message
    outcome,                  \* history: "acked", the ERROR log entry of the drop, "reloaded"
    stop_seen                 \* history: <<>>, or <<posts at the worker's first sight of stop>>

\* ------------------------------------------- the other components' state
\* The point buffer (src/eniris/point/writer/buffered.py), the duplicate
\* filter (src/eniris/point/writer/filter.py) and the token cache of the API
\* driver (src/eniris/driver.py) are modelled further down, each with a
\* specification of its own.  A specification constructs one component; the
\* variables of the components it does not construct are Absent throughout.
VARIABLES
    buffer,                   \* PointBufferSpec: the PointBuffer
    point,                    \* PointBufferSpec: the calls of append: number, last argument, raised
    namespace2buffer,         \* PointBufferDict._namespace2buffer
    dict_nrBytes,             \* PointBufferDict._nrBytes
    linger_output,            \* FALSE once the linger daemon's _output is None
    linger_pc,                \* position of the linger daemon thread in run
    linger_wakeup,            \* when its timed wait on _isKilled ends, None if not in it
    messages,                 \* the Telemessages a caller got from the dict and has yet to write
    writes,                   \* history: number of writePoints calls, whether the last raised
    entered,                  \* history: [namespace, key] of the points appended to a buffer
    downstream,               \* history: the bag of Telemessages written to the output, and by whom
    memory,                   \* PointDuplicateFilter.memory: series -> OrderedDict of time -> value
    entryKey2updateTs,        \* PointDuplicateFilter.entryKey2updateTs, in the order of the OrderedDict
    filter_last,              \* history: the last writePoints call of the filter
    filter_written,           \* history: the (series, time) entries written to the filter
    filter_removed,           \* history: an entry expired or left by the per-series cap
    refreshDtAndToken,        \* ApiDriver.refreshDtAndToken
    accessDtAndToken,         \* ApiDriver.accessDtAndToken
    auth_issued,              \* history: when the server issued each access token
    auth_last,                \* history: the last call of the driver
    lp_point,                 \* LineProtocolSpec: the Point at hand
    lp_line,                  \* LineProtocolSpec: what toLineProtocol() returned for it
    direct_auth,              \* DirectSpec: whether an authorizationHeaderFunction is configured
    direct_call,              \* DirectSpec: the writeTelemessage call: where it is, how it ended
    direct_log,               \* history: the attempts of the call, with the sleep after each
    lock_owner,               \* LockSpec: the thread that holds each lock, "none" if free
    lock_count,               \* LockSpec: how often its owner has acquired each (reentrant) lock
    lock_thread,              \* LockSpec: what each thread runs and how far it has come
    caller,                   \* concurrent callers: where each calling thread is, with its locals
    waitingMessages,          \* pooled TelemessageWrapperQueue._waitingMessages, a heap of ids
    activeMessages,           \* pooled TelemessageWrapperQueue._activeMessages, the ids in it
    isStopping,               \* pooled TelemessageWrapperQueue._isStopping
    wrappers,                 \* the pooled TelemessageWrappers made so far, by subId
    pool,                     \* PooledTelemessageWriter.pool: where each worker is, and its tmw
    flushing                  \* PooledTelemessageWriter.flush(): the wrappers still to wait for

Absent == "absent"

pointbuffer_vars == <<buffer, point>>
linger_vars == <<namespace2buffer, dict_nrBytes, linger_output, linger_pc, linger_wakeup,
                 messages, writes, entered, downstream>>
filter_vars == <<memory, entryKey2updateTs, filter_last, filter_written, filter_removed>>
auth_vars == <<refreshDtAndToken, accessDtAndToken, auth_issued, auth_last>>
lp_vars == <<lp_point, lp_line>>
direct_vars == <<direct_auth, direct_call, direct_log>>
lock_vars == <<lock_owner, lock_count, lock_thread>>
pool_vars == <<waitingMessages, activeMessages, isStopping, wrappers, pool, flushing>>
further_vars == <<lp_vars, direct_vars, lock_vars, caller, pool_vars>>
elsewhere == <<pointbuffer_vars, linger_vars, filter_vars, auth_vars, further_vars>>

PointBufferAbsent == buffer = Absent /\ point = Absent
LingerAbsent ==
    /\ namespace2buffer = Absent /\ dict_nrBytes = Absent /\ linger_output = Absent
    /\ linger_pc = Absent /\ linger_wakeup = Absent /\ messages = Absent
    /\ writes = Absent /\ entered = Absent /\ downstream = Absent
FilterAbsent ==
    /\ memory = Absent /\ entryKey2updateTs = Absent /\ filter_last = Absent
    /\ filter_written = Absent /\ filter_removed = Absent
AuthAbsent ==
    /\ refreshDtAndToken = Absent /\ accessDtAndToken = Absent
    /\ auth_issued = Absent /\ auth_last = Absent
LpAbsent == lp_point = Absent /\ lp_line = Absent
DirectAbsent == direct_auth = Absent /\ direct_call = Absent /\ direct_log = Absent
LockAbsent == lock_owner = Absent /\ lock_count = Absent /\ lock_thread = Absent
CallerAbsent == caller = Absent
PoolAbsent ==
    /\ waitingMessages = Absent /\ activeMessages = Absent /\ isStopping = Absent
    /\ wrappers = Absent /\ pool = Absent /\ flushing = Absent
FurtherAbsent == LpAbsent /\ DirectAbsent /\ LockAbsent /\ CallerAbsent /\ PoolAbsent
ElsewhereAbsent ==
    PointBufferAbsent /\ LingerAbsent /\ FilterAbsent /\ AuthAbsent /\ FurtherAbsent

vars == <<now, snapshot_folder, max_heap_size, min_snapshot_age_s, subIdCnt,
          new_messages, pending_messages, stop_signal, has_new_messages_or_stop,
          no_messages_left, next_snapshot_moment, folder,
          worker_pc, wait_timeout_s, tmw, close_pc, flush_pc,
          restarted, posts, last_resp, outcome, stop_seen, elsewhere>>

config == <<snapshot_folder, max_heap_size, min_snapshot_age_s>>
history == <<posts, last_resp, outcome, stop_seen>>

\* ------------------------------------------------------ TelemessageWrapper
\* TelemessageWrapper.__init__: _scheduledDt = creationDt, _retryNr = 0.
TelemessageWrapper(creationDt, subId) ==
    [subId |-> subId, creationDt |-> creationDt, scheduledDt |-> creationDt, retryNr |-> 0]

\* TelemessageWrapper.__lt__
Lt(a, b) == a.scheduledDt < b.scheduledDt

Range(s) == {s[i] : i \in 1..Len(s)}
Ids(s) == {s[i].subId : i \in 1..Len(s)}

\* ------------------------------------------------------------------ heapq
\* heapq._siftdown(heap, startpos, pos), positions counted from 0 as in
\* Python; h[p + 1] is heap[p].
RECURSIVE SiftDown(_, _, _, _)
SiftDown(h, startpos, pos, newitem) ==
    IF pos > startpos
    THEN LET parentpos == (pos - 1) \div 2
             parent == h[parentpos + 1]
         IN  IF Lt(newitem, parent)
             THEN SiftDown([h EXCEPT ![pos + 1] = parent], startpos, parentpos, newitem)
             ELSE [h EXCEPT ![pos + 1] = newitem]
    ELSE [h EXCEPT ![pos + 1] = newitem]

\* The loop of heapq._siftup: bubble the smaller child up until a leaf is hit;
\* the result is the heap and the leaf position.
RECURSIVE SiftUpLoop(_, _, _)
SiftUpLoop(h, pos, childpos) ==
    IF childpos < Len(h)
    THEN LET rightpos == childpos + 1
             c == IF rightpos < Len(h) /\ ~Lt(h[childpos + 1], h[rightpos + 1])
                  THEN rightpos ELSE childpos
         IN  SiftUpLoop([h EXCEPT ![pos + 1] = h[c + 1]], c, 2 * c + 1)
    ELSE <<h, pos>>

\* heapq._siftup(heap, pos)
SiftUp(h, pos) ==
    LET newitem == h[pos + 1]
        r == SiftUpLoop(h, pos, 2 * pos + 1)
    IN  SiftDown(r[1], pos, r[2], newitem)

\* A plausible slip: the item is appended and never sifted.
HeapPush_Append(h, item) == Append(h, item)

\* heapq.heappush(heap, item)
HeapPush(h, item) == SiftDown(Append(h, item), 0, Len(h), item)

\* heapq.heappop(heap): the item returned ...
HeapPopItem(h) == IF Len(h) = 1 THEN h[Len(h)] ELSE h[1]

\* ... and the heap it leaves.
HeapPopRest(h) ==
    LET lastelt == h[Len(h)]
        rest == SubSeq(h, 1, Len(h) - 1)
    IN  IF rest = <<>> THEN rest ELSE SiftUp([rest EXCEPT ![1] = lastelt], 0)

\* __get_next, lines 375-376: heappush every new message, in list order.
RECURSIVE PushAll(_, _)
PushAll(h, msgs) ==
    IF msgs = <<>> THEN h ELSE PushAll(HeapPush(h, Head(msgs)), Tail(msgs))

\* A cap that drops from the front of the heap array instead.
LazyLimitHeapSize_DropHead(h, cap) ==
    IF cap = None \/ Len(h) <= cap THEN h
    ELSE SubSeq(h, Len(h) - cap + 1, Len(h))

\* __lazy_limit_heap_size: pop() the last array element while over the cap.
RECURSIVE LazyLimitHeapSize(_, _)
LazyLimitHeapSize(h, cap) ==
    IF cap = None THEN h
    ELSE IF Len(h) > cap THEN LazyLimitHeapSize(SubSeq(h, 1, Len(h) - 1), cap)
    ELSE h

\* ------------------------------------------------------------- snapshots
\* The file name of a wrapper's snapshot, line 464:
\* strftime('%Y%m%dT%H%M%S%f') of creationDt, "_subId_", subId, ".pickle".
SnapshotFilename(w) == <<w.creationDt, w.subId>>

\* A load that forgets to hand over the creation time of the file name, so
\* that the wrapper takes the default (the time of loading).
LoadSnapshot_NoCreationDt(filename) == TelemessageWrapper(now, filename[2])

\* __loadSnapshots, lines 259-270: the wrapper a file name is parsed back to
\* (creationDt from group 1, subId from group 2, a fresh retry counter).
LoadSnapshot(filename) == TelemessageWrapper(filename[1], filename[2])

\* A pass that writes the missing files and removes none.
TakeSnapshot_KeepObsolete(existing, pending, t, minAge) ==
    existing \cup {SnapshotFilename(w) : w \in {x \in Range(pending) : ~(x.creationDt > t - minAge)}}

\* __take_snapshot: the folder after one pass over the pending messages.
TakeSnapshot(existing, pending, t, minAge) ==
    LET dt_limit == t - minAge
        old == {w \in Range(pending) : ~(w.creationDt > dt_limit)}
        used == {SnapshotFilename(w) : w \in old}
        written == used \ existing
        obsolete == existing \ used
    IN  (existing \cup written) \ obsolete

\* All orders in which os.listdir / set iteration can yield the files.
Perms(S) ==
    {s \in [1..Cardinality(S) -> S] : \A i, j \in 1..Cardinality(S) : s[i] = s[j] => i = j}

\* -------------------------------------------------------------- __send
\* A __send that hands back every status other than 204.
SendFails_AnyStatus(resp) ==
    \/ resp \in StatusCodes /\ resp # "204"
    \/ resp = "Timeout"
    \/ resp = "ConnectionError"

\* Lines 321-347: does __send hand the wrapper back for a reschedule?
SendFails(resp) ==
    \/ resp \in StatusCodes /\ resp # "204" /\ resp \in retryStatusCodes
    \/ resp = "Timeout"
    \/ resp = "ConnectionError"

\* Lines 330-340 and 345-347: is the message dropped with an ERROR entry?
SendLogsDrop(resp) ==
    \/ resp \in StatusCodes /\ resp # "204" /\ resp \notin retryStatusCodes
    \/ resp \in {"Exception", "AuthException"}

\* A __send without the clause of lines 345-347: an exception that is neither
\* a Timeout nor a ConnectionError leaves run and ends the thread.
SendEnds_Uncaught(resp) ==
    IF resp \in {"Exception", "AuthException"} THEN "raised" ELSE "signal"

\* Lines 308-347 and 286-297: where the worker is after the attempt.  Every
\* branch of __send returns, the clause of line 345 for whatever the
\* authorization callback, the session or the evaluation of the answer
\* raises, and run goes on to the end of its iteration.
SendEnds(resp) == "signal"

\* ---------------------------------------------------------- __reschedule
Min(a, b) == IF a < b THEN a ELSE b
Max(a, b) == IF a > b THEN a ELSE b

\* Line 406-409: min(initialRetryDelayS * 2**retryNr, maximumRetryDelayS)
RetryDelay(retryNr) == Min(initialRetryDelayS * 2 ^ retryNr, maximumRetryDelayS)

\* An off-by-one in the test of the retry budget.
MayRetry_OffByOne(w) == w.retryNr <= maximumRetries

\* Line 403: tmw._retryNr + 1 <= self.maximumRetries
MayRetry(w) == w.retryNr + 1 <= maximumRetries

\* Lines 405-411: the wrapper pushed back.  The new time is assigned to
\* self._scheduledDt, an attribute of the daemon: the wrapper keeps its own.
Rescheduled(w) == [w EXCEPT !.retryNr = @ + 1]

\* ---------------------------------------------------------------- state
Fresh == [m \in SubIds |-> 0]
NoResp == [m \in SubIds |-> "none"]

\* State after BackgroundTelemessageWriter.__init__: the daemon's __init__
\* (lines 177-208) on an empty or absent snapshot folder, thread started.
Init ==
    /\ now = 0
    /\ snapshot_folder \in BOOLEAN
    /\ max_heap_size \in {None, 1}
    /\ min_snapshot_age_s \in (IF snapshot_folder THEN {0, 1} ELSE {0})
    /\ subIdCnt = 0
    /\ folder = {}
    /\ new_messages = <<>>
    /\ has_new_messages_or_stop = FALSE
    /\ pending_messages = <<>>
    /\ stop_signal = FALSE
    /\ no_messages_left = TRUE
    /\ next_snapshot_moment = now + snapshot_period_s
    /\ worker_pc = "get_next"
    /\ wait_timeout_s = None
    /\ tmw = <<>>
    /\ close_pc = "idle"
    /\ flush_pc = "idle"
    /\ restarted = FALSE
    /\ posts = Fresh
    /\ last_resp = NoResp
    /\ outcome = NoResp
    /\ stop_seen = <<>>
    /\ ElsewhereAbsent

daemon == <<new_messages, pending_messages, stop_signal, has_new_messages_or_stop,
            no_messages_left, next_snapshot_moment>>
worker == <<worker_pc, wait_timeout_s, tmw>>

\* The clock advances.
Tick ==
    /\ now < MaxTime
    /\ now' = now + 1
    /\ UNCHANGED <<config, elsewhere, subIdCnt, daemon, folder, worker, close_pc, flush_pc,
                   restarted, history>>

\* --------------------------------------------------------------- callers
\* writeTelemessage, lines 216-219, one critical section of self._lock.
WriteTelemessage ==
    /\ worker_pc # "dead"
    /\ subIdCnt < MaxMsgs
    /\ subIdCnt' = subIdCnt + 1
    /\ new_messages' = Append(new_messages, TelemessageWrapper(now, subIdCnt + 1))
    /\ has_new_messages_or_stop' = TRUE
    /\ no_messages_left' = FALSE
    /\ UNCHANGED <<now, config, elsewhere, pending_messages, stop_signal, next_snapshot_moment,
                   folder, worker, close_pc, flush_pc, restarted, history>>

\* close, line 233: self._stop_signal.set().  One client thread calls flush
\* and close, so close starts when no flush is waiting.
CloseSetStop ==
    /\ worker_pc # "dead"
    /\ close_pc = "idle"
    /\ flush_pc = "idle"
    /\ stop_signal' = TRUE
    /\ close_pc' = "set_event"
    /\ UNCHANGED <<now, config, elsewhere, subIdCnt, new_messages, pending_messages,
                   has_new_messages_or_stop, no_messages_left, next_snapshot_moment,
                   folder, worker, flush_pc, restarted, history>>

\* A close that forgets the wake-up.
CloseSetEvent_NoWake ==
    /\ close_pc = "set_event"
    /\ close_pc' = "join"
    /\ UNCHANGED <<now, config, elsewhere, subIdCnt, daemon, folder, worker, flush_pc,
                   restarted, history>>

\* close, line 234: self._has_new_messages_or_stop.set()
CloseSetEvent ==
    /\ close_pc = "set_event"
    /\ has_new_messages_or_stop' = TRUE
    /\ close_pc' = "join"
    /\ UNCHANGED <<now, config, elsewhere, subIdCnt, new_messages, pending_messages, stop_signal,
                   no_messages_left, next_snapshot_moment, folder, worker, flush_pc,
                   restarted, history>>

\* BackgroundTelemessageWriter.close, line 147: self.daemon.join() returns.
CloseJoin ==
    /\ close_pc = "join"
    /\ worker_pc = "done"
    /\ close_pc' = "returned"
    /\ UNCHANGED <<now, config, elsewhere, subIdCnt, daemon, folder, worker, flush_pc,
                   restarted, history>>

\* flush is called ...
FlushCall ==
    /\ worker_pc # "dead"
    /\ flush_pc = "idle"
    /\ close_pc = "idle"
    /\ flush_pc' = "waiting"
    /\ UNCHANGED <<now, config, elsewhere, subIdCnt, daemon, folder, worker, close_pc,
                   restarted, history>>

\* ... and returns, line 224: self._no_messages_left.wait()
FlushReturn ==
    /\ flush_pc = "waiting"
    /\ no_messages_left
    /\ flush_pc' = "idle"
    /\ UNCHANGED <<now, config, elsewhere, subIdCnt, daemon, folder, worker, close_pc,
                   restarted, history>>

\* ---------------------------------------------------------------- worker
\* History only: what the worker holds when it first finds the stop signal set.
SeeStop ==
    IF stop_seen = <<>>
    THEN <<[present |-> Ids(new_messages) \cup Ids(pending_messages), posts |-> posts]>>
    ELSE stop_seen

\* __get_next, lines 360-368: the timeout, then the test of the stop signal.
\* wait_timeout_s holds the moment the wait would time out,
\* now + max(0, scheduled - now), rather than the duration; it is None when
\* the wait is skipped, since nothing reads it then.
GetNextStart ==
    /\ worker_pc = "get_next"
    /\ IF stop_signal
       THEN /\ wait_timeout_s' = None
            /\ worker_pc' = "drain"
            /\ stop_seen' = SeeStop
       ELSE /\ wait_timeout_s' =
                  IF Len(pending_messages) = 0 THEN None
                  ELSE now + Max(0, pending_messages[1].scheduledDt - now)
            /\ worker_pc' = "wait"
            /\ UNCHANGED stop_seen
    /\ UNCHANGED <<now, config, elsewhere, subIdCnt, daemon, folder, tmw, close_pc, flush_pc,
                   restarted, posts, last_resp, outcome>>

\* __get_next, line 371: self._has_new_messages_or_stop.wait(wait_timeout_s)
\* returns once the event is set or the timeout has passed.  The timeout is
\* not read again before it is assigned, so the model forgets it here.
Wait ==
    /\ worker_pc = "wait"
    /\ \/ has_new_messages_or_stop
       \/ wait_timeout_s # None /\ now >= wait_timeout_s
    /\ worker_pc' = "drain"
    /\ wait_timeout_s' = None
    /\ UNCHANGED <<now, config, elsewhere, subIdCnt, daemon, folder, tmw, close_pc, flush_pc,
                   restarted, history>>

\* __get_next, lines 374-378, one critical section of self._lock.
Drain ==
    /\ worker_pc = "drain"
    /\ pending_messages' = PushAll(pending_messages, new_messages)
    /\ new_messages' = <<>>
    /\ has_new_messages_or_stop' = FALSE
    /\ worker_pc' = "dispatch"
    /\ UNCHANGED <<now, config, elsewhere, subIdCnt, stop_signal, no_messages_left,
                   next_snapshot_moment, folder, wait_timeout_s, tmw, close_pc,
                   flush_pc, restarted, history>>

\* __get_next, lines 381-398, and run, lines 279-284.  Line 398 sets the
\* timeout to None and loops to line 368 with pending empty, which is what a
\* fresh pass through lines 360-368 does: the model goes back to "get_next".
Dispatch ==
    /\ worker_pc = "dispatch"
    /\ stop_seen' = IF stop_signal THEN SeeStop ELSE stop_seen
    /\ IF stop_signal
       THEN IF ~snapshot_folder /\ Len(pending_messages) # 0
            THEN /\ tmw' = <<[HeapPopItem(pending_messages) EXCEPT !.retryNr = maximumRetries]>>
                 /\ pending_messages' = HeapPopRest(pending_messages)
                 /\ worker_pc' = "send"
            ELSE /\ worker_pc' = "final_snapshot"
                 /\ UNCHANGED <<tmw, pending_messages>>
       ELSE IF Len(pending_messages) > 0
            THEN /\ tmw' = <<HeapPopItem(pending_messages)>>
                 /\ pending_messages' = HeapPopRest(pending_messages)
                 /\ worker_pc' = "send"
            ELSE /\ worker_pc' = "get_next"
                 /\ UNCHANGED <<tmw, pending_messages>>
    /\ UNCHANGED <<now, config, elsewhere, subIdCnt, new_messages, stop_signal,
                   has_new_messages_or_stop, no_messages_left, next_snapshot_moment,
                   folder, wait_timeout_s, close_pc, flush_pc, restarted, posts,
                   last_resp, outcome>>

\* __reschedule as run calls it (lines 288-289): the heap after the answer
\* resp to wrapper w.
AfterReschedule(h, w, resp) ==
    IF SendFails(resp) /\ MayRetry(w) THEN HeapPush(h, Rescheduled(w)) ELSE h

\* The heap at the end of the iteration: rescheduled, then capped (line 291).
AfterAttempt(h, w, resp) == LazyLimitHeapSize(AfterReschedule(h, w, resp), max_heap_size)

\* __take_snapshot as the worker calls it: nothing without a snapshot folder.
SnapshotPass(pending) ==
    IF snapshot_folder
    THEN TakeSnapshot(folder, pending, now, min_snapshot_age_s)
    ELSE folder

\* run, lines 286-295: the POST gets its answer, then __reschedule,
\* __lazy_limit_heap_size and the periodic snapshot, all of them on state
\* only the worker touches.  The message is in flight while worker_pc = "send".
Send ==
    /\ worker_pc = "send"
    /\ \E resp \in Responses :
          LET w == tmw[1]
              m == w.subId
          IN
          /\ posts' = IF resp = "AuthException" THEN posts
                      ELSE [posts EXCEPT ![m] = @ + 1]
          /\ last_resp' = [last_resp EXCEPT ![m] = Kind(resp)]
          /\ outcome' = [outcome EXCEPT ![m] =
                            IF resp = "204" THEN "acked"
                            ELSE IF SendLogsDrop(resp) THEN "dropped"
                            ELSE IF SendFails(resp) /\ ~MayRetry(w) THEN "exhausted"
                            ELSE @]
          /\ pending_messages' = AfterAttempt(pending_messages, w, resp)
          /\ worker_pc' = SendEnds(resp)
    /\ IF now > next_snapshot_moment
       THEN /\ folder' = SnapshotPass(pending_messages')
            /\ next_snapshot_moment' = now + snapshot_period_s
       ELSE UNCHANGED <<folder, next_snapshot_moment>>
    /\ tmw' = <<>>
    /\ UNCHANGED <<now, config, elsewhere, subIdCnt, new_messages, stop_signal,
                   has_new_messages_or_stop, no_messages_left, wait_timeout_s,
                   close_pc, flush_pc, restarted, stop_seen>>

\* run, lines 297-299, one critical section of self._lock.
Signal ==
    /\ worker_pc = "signal"
    /\ no_messages_left' =
          IF Len(pending_messages) + Len(new_messages) = 0 THEN TRUE
          ELSE no_messages_left
    /\ worker_pc' = "get_next"
    /\ UNCHANGED <<now, config, elsewhere, subIdCnt, new_messages, pending_messages, stop_signal,
                   has_new_messages_or_stop, next_snapshot_moment, folder,
                   wait_timeout_s, tmw, close_pc, flush_pc, restarted, history>>

\* run, lines 282-284: __get_next gave None; snapshot and end the thread.
FinalSnapshot ==
    /\ worker_pc = "final_snapshot"
    /\ folder' = SnapshotPass(pending_messages)
    /\ worker_pc' = "done"
    /\ UNCHANGED <<now, config, elsewhere, subIdCnt, daemon, wait_timeout_s, tmw, close_pc,
                   flush_pc, restarted, history>>

WorkerNext ==
    \/ GetNextStart
    \/ Wait
    \/ Drain
    \/ Dispatch
    \/ Send
    \/ Signal
    \/ FinalSnapshot

\* ------------------------------------------------------ crash and restart
\* The process dies without a clean shutdown: everything in memory is gone,
\* the snapshot folder stays.
Crash ==
    /\ snapshot_folder
    /\ ~restarted
    /\ worker_pc # "dead"
    /\ worker_pc' = "dead"
    /\ new_messages' = <<>>
    /\ pending_messages' = <<>>
    /\ tmw' = <<>>
    /\ wait_timeout_s' = None
    /\ stop_signal' = FALSE
    /\ has_new_messages_or_stop' = FALSE
    /\ no_messages_left' = FALSE
    /\ close_pc' = "idle"
    /\ flush_pc' = "idle"
    /\ UNCHANGED <<now, config, elsewhere, subIdCnt, next_snapshot_moment, folder, restarted,
                   history>>

\* A new transmitter is created on the folder: __init__ with __loadSnapshots
\* (lines 195-208, 248-273), the files in whatever order the listing gives,
\* and the new worker thread is started.
Restart ==
    /\ worker_pc = "dead"
    /\ \E loaded \in Perms(folder) :
          new_messages' = [i \in 1..Cardinality(folder) |-> LoadSnapshot(loaded[i])]
    /\ has_new_messages_or_stop' = (folder # {})
    /\ pending_messages' = <<>>
    /\ stop_signal' = FALSE
    /\ no_messages_left' = TRUE
    /\ next_snapshot_moment' = now + snapshot_period_s
    /\ worker_pc' = "get_next"
    /\ restarted' = TRUE
    /\ posts' = Fresh
    /\ last_resp' = NoResp
    /\ outcome' = [m \in SubIds |->
                      IF \E f \in folder : f[2] = m THEN "reloaded" ELSE "none"]
    /\ stop_seen' = <<>>
    /\ UNCHANGED <<now, config, elsewhere, subIdCnt, folder, wait_timeout_s, tmw, close_pc,
                   flush_pc>>

Next ==
    \/ Tick
    \/ WriteTelemessage
    \/ CloseSetStop
    \/ CloseSetEvent
    \/ CloseJoin
    \/ FlushCall
    \/ FlushReturn
    \/ WorkerNext
    \/ Crash
    \/ Restart

Spec == Init /\ [][Next]_vars

\* The worker thread runs whenever it can, and a caller inside close() goes on
\* to its next statement.
FairSpec == Spec /\ WF_vars(WorkerNext) /\ WF_vars(CloseSetEvent)

\* =================================================================== claims
InMemory(m) == m \in Ids(new_messages) \cup Ids(pending_messages) \cup Ids(tmw)
SendStep == worker_pc = "send" /\ worker_pc' = "signal"
CrashStep == worker_pc # "dead" /\ worker_pc' = "dead"
RestartStep == worker_pc = "dead" /\ worker_pc' = "get_next"
Terminal == {"acked", "dropped", "exhausted"}

\* C1 (as amended): no message is POSTed more than maximumRetries+1 times by
\* one worker instance; a message dropped as "maximum number of retries
\* exceeded" by a worker that has not seen the stop signal was POSTed exactly
\* maximumRetries+1 times; and, with no heap cap and no stop seen, a message
\* whose attempts so far all failed retry-eligibly and that has POSTs left is
\* still held by the transmitter.
C1_RetryBudget ==
    \A m \in SubIds :
        /\ posts[m] <= maximumRetries + 1
        /\ (outcome[m] = "exhausted" /\ stop_seen = <<>>) => posts[m] = maximumRetries + 1
        /\ (/\ last_resp[m] = "retry"
            /\ posts[m] < maximumRetries + 1
            /\ stop_seen = <<>>
            /\ max_heap_size = None
            /\ worker_pc # "dead") => InMemory(m)

\* C1, witness: a message ran out of retries after maximumRetries+1 POSTs.
C1_Witness ==
    \E m \in SubIds :
        outcome[m] = "exhausted" /\ posts[m] = maximumRetries + 1 /\ stop_seen = <<>>

\* C1 as stated: a message that the transmitter no longer holds and whose
\* attempts all failed retry-eligibly was POSTed exactly maximumRetries+1
\* times, and no message more often.
C1_Original ==
    \A m \in SubIds :
        /\ posts[m] <= maximumRetries + 1
        /\ (last_resp[m] = "retry" /\ ~InMemory(m) /\ worker_pc # "dead")
              => posts[m] = maximumRetries + 1

\* C2 as stated: when an attempt of a message with retry counter n fails
\* retry-eligibly and n+1 <= maximumRetries, the message is back on pending
\* with counter n+1 and scheduled time now + min(initialRetryDelayS * 2^n,
\* maximumRetryDelayS) (no heap cap configured, which could remove it).
C2_Original ==
    [][(/\ SendStep
        /\ max_heap_size = None
        /\ last_resp'[tmw[1].subId] = "retry"
        /\ tmw[1].retryNr + 1 <= maximumRetries)
       => \E i \in 1..Len(pending_messages') :
             /\ pending_messages'[i].subId = tmw[1].subId
             /\ pending_messages'[i].retryNr = tmw[1].retryNr + 1
             /\ pending_messages'[i].scheduledDt = now + RetryDelay(tmw[1].retryNr)]_vars

\* C3: once a message is answered with 204 or with a status outside the retry
\* set it is in neither new_messages nor pending nor in flight, this worker
\* never POSTs it again, and if that was the answer to its first POST it was
\* POSTed exactly once.
C3_FinalAnswer ==
    /\ [](\A m \in SubIds : last_resp[m] \in {"ack", "permanent"} => ~InMemory(m))
    /\ [][\A m \in SubIds :
            /\ (last_resp[m] \in {"ack", "permanent"} /\ ~RestartStep)
                  => (posts'[m] = posts[m] /\ last_resp'[m] = last_resp[m])
            /\ (SendStep /\ posts[m] = 0 /\ last_resp'[m] \in {"ack", "permanent"})
                  => posts'[m] = 1]_vars

\* C3, witness: one message acknowledged, one refused for good, each after a
\* single POST, and the worker is waiting for more.
C3_Witness ==
    /\ worker_pc = "wait"
    /\ \E m, k \in SubIds :
          /\ last_resp[m] = "ack" /\ posts[m] = 1
          /\ last_resp[k] = "permanent" /\ posts[k] = 1

\* C4 as stated: no_messages_left is set only if new_messages and pending are
\* empty and no message is in flight.
C4_Original ==
    no_messages_left =>
        (new_messages = <<>> /\ pending_messages = <<>> /\ tmw = <<>>)

\* C5 as stated, for the messages the transmitter held when its worker first
\* saw the stop signal: once the worker has ended, each of them was
\* acknowledged, dropped with a log entry, or has a snapshot file.
C5_Original ==
    (worker_pc = "done" /\ stop_seen # <<>>) =>
        \A m \in stop_seen[1].present :
            \/ outcome[m] \in Terminal
            \/ \E f \in folder : f[2] = m

\* C6 as stated, for the pending messages: after close() of the public writer
\* has returned on a transmitter with a snapshot folder, every wrapper left on
\* pending has its snapshot file and the folder holds no file of another
\* message.
C6_Original ==
    (close_pc = "returned" /\ snapshot_folder) =>
        /\ \A i \in 1..Len(pending_messages) : SnapshotFilename(pending_messages[i]) \in folder
        /\ \A f \in folder : f[2] \in Ids(pending_messages) \cup Ids(new_messages)

\* C7 as stated (no heap cap configured): without a snapshot folder, when the
\* worker has ended, pending is empty and every message that was in
\* new_messages or pending when the worker saw the stop signal got exactly one
\* more POST (or its authorization callback raised before the POST).
C7_Original ==
    (worker_pc = "done" /\ ~snapshot_folder /\ max_heap_size = None /\ stop_seen # <<>>) =>
        /\ pending_messages = <<>>
        /\ \A m \in stop_seen[1].present :
              \/ last_resp[m] = "exception"
              \/ posts[m] = stop_seen[1].posts[m] + 1

\* C8: after close() has set the stop signal the worker thread ends (or the
\* process is gone), whatever the interleaving of the two statements of close
\* with the worker's test of the stop signal, its wait and its clear.
C8_WorkerExits == stop_signal ~> (worker_pc \in {"done", "dead"})

\* C8, witness: close() has set both events, the worker has since cleared the
\* wake event and has yet to test the stop signal.
C8_Witness ==
    /\ close_pc = "join"
    /\ stop_signal
    /\ ~has_new_messages_or_stop
    /\ worker_pc = "dispatch"
    /\ stop_seen = <<>>

\* C9 as stated: with minimumSnaphotAgeS = 0, when the worker is killed every
\* message the transmitter holds unacknowledged has its file in the folder
\* (where the new transmitter looks for it).
C9_Original ==
    [][(CrashStep /\ min_snapshot_age_s = 0) =>
         \A w \in Range(new_messages) \cup Range(pending_messages) \cup Range(tmw) :
             SnapshotFilename(w) \in folder]_vars

\* C9 (as amended): a new transmitter created on the folder re-enqueues
\* exactly the messages that have a snapshot file there, each with the
\* creation time and subId of its file name and a fresh retry counter, sets
\* the wake event if there is any, and its worker sends each of them unless it
\* is stopped or a heap cap is configured.
C9_Reload ==
    /\ [][RestartStep =>
            /\ Len(new_messages') = Cardinality(folder)
            /\ Range(new_messages') =
                  {[subId |-> f[2], creationDt |-> f[1], scheduledDt |-> f[1], retryNr |-> 0] :
                      f \in folder}
            /\ has_new_messages_or_stop' = (folder # {})]_vars
    /\ \A m \in SubIds :
          (outcome[m] = "reloaded" /\ max_heap_size = None)
             ~> (last_resp[m] # "none" \/ stop_signal)

\* C9, witness: a message reloaded from its snapshot has been POSTed by the
\* new worker.
C9_Witness ==
    \E m \in SubIds : restarted /\ outcome[m] = "reloaded" /\ posts[m] >= 1

\* ------------------------------------------------------ the heap on its own
\* The worker's use of heapq, without the rest of the transmitter: wrappers
\* arrive with any scheduled time and in any order (as __loadSnapshots
\* delivers them), and the worker repeats lines 374-378 (drain), 386/395
\* (pop), 288-291 (reschedule, cap).  worker_pc runs "drain", "dispatch",
\* "send".  Number of wrappers that arrive:
MaxHeapMsgs == 4

HeapInit ==
    /\ now = 0
    /\ snapshot_folder = FALSE
    /\ max_heap_size \in {None, 2}
    /\ min_snapshot_age_s = 0
    /\ subIdCnt = 0
    /\ folder = {}
    /\ new_messages = <<>>
    /\ has_new_messages_or_stop = FALSE
    /\ pending_messages = <<>>
    /\ stop_signal = FALSE
    /\ no_messages_left = TRUE
    /\ next_snapshot_moment = now + snapshot_period_s
    /\ worker_pc = "drain"
    /\ wait_timeout_s = None
    /\ tmw = <<>>
    /\ close_pc = "idle"
    /\ flush_pc = "idle"
    /\ restarted = FALSE
    /\ posts = Fresh
    /\ last_resp = NoResp
    /\ outcome = NoResp
    /\ stop_seen = <<>>
    /\ ElsewhereAbsent

heaprest == <<now, config, elsewhere, folder, has_new_messages_or_stop, stop_signal,
              no_messages_left, next_snapshot_moment, wait_timeout_s, close_pc,
              flush_pc, restarted, history>>

\* A wrapper arrives in new_messages (line 217, or one loaded at line 270).
HeapArrive ==
    /\ subIdCnt < MaxHeapMsgs
    /\ subIdCnt' = subIdCnt + 1
    /\ \E t \in Time :
          new_messages' = Append(new_messages, TelemessageWrapper(t, subIdCnt + 1))
    /\ UNCHANGED <<pending_messages, tmw, worker_pc, heaprest>>

\* Lines 375-377.
HeapDrain ==
    /\ worker_pc = "drain"
    /\ pending_messages' = PushAll(pending_messages, new_messages)
    /\ new_messages' = <<>>
    /\ worker_pc' = "dispatch"
    /\ UNCHANGED <<subIdCnt, tmw, heaprest>>

\* Lines 386 and 395: heappop.
HeapPop ==
    /\ worker_pc = "dispatch"
    /\ IF Len(pending_messages) > 0
       THEN /\ tmw' = <<HeapPopItem(pending_messages)>>
            /\ pending_messages' = HeapPopRest(pending_messages)
            /\ worker_pc' = "send"
       ELSE /\ worker_pc' = "drain"
            /\ UNCHANGED <<tmw, pending_messages>>
    /\ UNCHANGED <<subIdCnt, new_messages, heaprest>>

\* Lines 288-291: __reschedule and __lazy_limit_heap_size after any answer.
HeapSettle ==
    /\ worker_pc = "send"
    /\ \E resp \in Responses :
          pending_messages' = AfterAttempt(pending_messages, tmw[1], resp)
    /\ tmw' = <<>>
    /\ worker_pc' = "drain"
    /\ UNCHANGED <<subIdCnt, new_messages, heaprest>>

HeapNext ==
    \/ HeapArrive
    \/ HeapDrain
    \/ HeapPop
    \/ HeapSettle

HeapSpec == HeapInit /\ [][HeapNext]_vars

\* heapq's invariant: a[k] <= a[2k+1] and a[k] <= a[2k+2], counting from 0.
IsHeap(h) ==
    \A k \in 0..(Len(h) - 1) :
        /\ 2 * k + 1 < Len(h) => ~Lt(h[2 * k + 2], h[k + 1])
        /\ 2 * k + 2 < Len(h) => ~Lt(h[2 * k + 3], h[k + 1])

\* C10: pending always satisfies the min-heap order on scheduledDt, and the
\* wrapper the worker has popped is scheduled no later than any wrapper left
\* on pending.
C10_HeapOrder ==
    /\ IsHeap(pending_messages)
    /\ worker_pc = "send" =>
          \A i \in 1..Len(pending_messages) : ~Lt(pending_messages[i], tmw[1])

\* C10, witness: the worker popped a wrapper that had been pushed back after a
\* failed attempt, from under at least three wrappers, one of them scheduled
\* later.
C10_Witness ==
    /\ worker_pc = "send"
    /\ tmw[1].retryNr >= 1
    /\ Len(pending_messages) >= 3
    /\ \E i \in 1..Len(pending_messages) : Lt(tmw[1], pending_messages[i])

\* ======================================================== line protocol
\* src/eniris/point/point.py.  A Python str is a sequence of characters, each
\* character a one-character string; an int is an integer; None is None.

\* str.replace(old, new) for a one-character old.
RECURSIVE Replace(_, _, _)
Replace(s, old, new) ==
    IF s = <<>> THEN <<>>
    ELSE (IF Head(s) = old THEN new ELSE <<Head(s)>>) \o Replace(Tail(s), old, new)

\* Point.escapeMeasurement (lines 404-423): backslash first, then comma and
\* space.
EscapeMeasurement(measurement) ==
    Replace(Replace(Replace(measurement, "\\", <<"\\", "\\">>),
                    ",", <<"\\", ",">>),
            " ", <<"\\", " ">>)

\* TagSet.escapeKey, TagSet.escapeValue and FieldSet.escapeKey (lines 84-106,
\* 109-130, 225-246) are the same function: backslash first, then comma,
\* equals sign and space.
EscapeKey(key) ==
    Replace(Replace(Replace(Replace(key, "\\", <<"\\", "\\">>),
                            ",", <<"\\", ",">>),
                    "=", <<"\\", "=">>),
            " ", <<"\\", " ">>)

\* str(n) of an int.
DigitChars == <<"0", "1", "2", "3", "4", "5", "6", "7", "8", "9">>
RECURSIVE StrNat(_)
StrNat(n) ==
    IF n < 10 THEN <<DigitChars[n + 1]>>
    ELSE StrNat(n \div 10) \o <<DigitChars[(n % 10) + 1]>>
StrInt(n) == IF n < 0 THEN <<"-">> \o StrNat(0 - n) ELSE StrNat(n)

\* A field value is a record: type "bool" with a BOOLEAN v, "int" with an
\* integer v, "float" with v the characters of str(value), "str" with v the
\* characters.
\* FieldSet.escapeValue (lines 249-272).  For a str the double quote is
\* replaced before the backslash, as in line 270.
EscapeFieldValue(value) ==
    IF value.type = "bool" THEN (IF value.v THEN <<"T">> ELSE <<"F">>)
    ELSE IF value.type = "int" THEN StrInt(value.v) \o <<"i">>
    ELSE IF value.type = "float" THEN value.v
    ELSE <<"\"">>
         \o Replace(Replace(value.v, "\"", <<"\\", "\"">>), "\\", <<"\\", "\\">>)
         \o <<"\"">>

\* ",".join(lst)
RECURSIVE Join(_, _)
Join(sep, lst) ==
    IF lst = <<>> THEN <<>>
    ELSE IF Len(lst) = 1 THEN lst[1]
    ELSE lst[1] \o sep \o Join(sep, Tail(lst))

\* Code points of the characters the model uses, for the comparison of str.
Ord(c) ==
    CASE c = " " -> 32 [] c = "\"" -> 34 [] c = "," -> 44 [] c = "-" -> 45
      [] c = "." -> 46 [] c = "0" -> 48 [] c = "1" -> 49 [] c = "2" -> 50
      [] c = "3" -> 51 [] c = "4" -> 52 [] c = "5" -> 53 [] c = "6" -> 54
      [] c = "7" -> 55 [] c = "8" -> 56 [] c = "9" -> 57 [] c = "=" -> 61
      [] c = "F" -> 70 [] c = "T" -> 84 [] c = "\\" -> 92 [] c = "a" -> 97
      [] c = "b" -> 98 [] c = "c" -> 99 [] c = "f" -> 102 [] c = "g" -> 103
      [] c = "i" -> 105 [] c = "m" -> 109 [] c = "é" -> 233

\* str.__lt__: lexicographic on code points.
RECURSIVE StrLt(_, _)
StrLt(a, b) ==
    IF b = <<>> THEN FALSE
    ELSE IF a = <<>> THEN TRUE
    ELSE IF Head(a) = Head(b) THEN StrLt(Tail(a), Tail(b))
    ELSE Ord(Head(a)) < Ord(Head(b))

\* list.sort() of a list of str (insertion into the sorted rest; the result
\* of a sort is unique up to equal elements).
RECURSIVE SortInsert(_, _)
SortInsert(x, sorted) ==
    IF sorted = <<>> THEN <<x>>
    ELSE IF StrLt(sorted[1], x) THEN <<sorted[1]>> \o SortInsert(x, Tail(sorted))
    ELSE <<x>> \o sorted
RECURSIVE Sorted(_)
Sorted(lst) == IF lst = <<>> THEN <<>> ELSE SortInsert(Head(lst), Sorted(Tail(lst)))

\* A TagSet or FieldSet is the sequence of its <<key, value>> pairs in
\* insertion order (dict order).
\* TagSet.toLineProtocol (lines 132-142)
TagSetToLineProtocol(tags) ==
    Join(<<",">>, Sorted([i \in 1..Len(tags) |->
                            EscapeKey(tags[i][1]) \o <<"=">> \o EscapeKey(tags[i][2])]))

\* FieldSet.toLineProtocol (lines 274-283)
FieldSetToLineProtocol(fields) ==
    Join(<<",">>, [i \in 1..Len(fields) |->
                     EscapeKey(fields[i][1]) \o <<"=">> \o EscapeFieldValue(fields[i][2])])

\* Point.__init__ (lines 318-330); time is None or the integer that
\* int(time.timestamp() * 10**9) gives.
Point(namespace, measurement, time, tags, fields) ==
    [namespace |-> namespace, measurement |-> measurement, time |-> time,
     tags |-> tags, fields |-> fields]

\* Point.toLineProtocol (lines 520-538)
ToLineProtocol(p) ==
    EscapeMeasurement(p.measurement)
    \o (IF Len(p.tags) > 0 THEN <<",">> \o TagSetToLineProtocol(p.tags) ELSE <<>>)
    \o <<" ">>
    \o FieldSetToLineProtocol(p.fields)
    \o (IF p.time # None THEN <<" ">> \o StrInt(p.time) ELSE <<>>)

\* str.encode("utf-8"), as far as its length goes: the number of bytes of
\* each character.
Utf8Len(c) == IF c = "é" THEN 2 ELSE 1
RECURSIVE EncodedLen(_)
EncodedLen(s) == IF s = <<>> THEN 0 ELSE Utf8Len(Head(s)) + EncodedLen(Tail(s))

\* len(Telemessage.data) for data = b"\n".join(lines)
\* (src/eniris/telemessage/telemessage.py lines 30-31, 39-45).
RECURSIVE SumEncodedLen(_)
SumEncodedLen(lines) ==
    IF lines = <<>> THEN 0 ELSE EncodedLen(Head(lines)) + SumEncodedLen(Tail(lines))
TelemessageNrBytes(lines) ==
    IF lines = <<>> THEN 0 ELSE SumEncodedLen(lines) + (Len(lines) - 1)

\* ========================================================== PointBuffer
\* src/eniris/point/writer/buffered.py, lines 19-138.

\* createPointKey (lines 19-33): (measurement, time in ns, frozenset of the
\* tag pairs).  point.time.timestamp() raises AttributeError if time is None.
CreatePointKeyRaises(p) == p.time = None
CreatePointKey(p) == <<p.measurement, p.time, {p.tags[i] : i \in 1..Len(p.tags)}>>

\* PointBuffer.__init__ (lines 51-55).  pointMap, a dict, is the sequence of
\* its entries [key, fields] in insertion order; fields, a dict, is the
\* sequence of its <<fieldKey, value>> pairs.
PointBuffer(namespace, creationDt) ==
    [namespace |-> namespace, creationDt |-> creationDt, pointMap |-> <<>>, nrBytes |-> 0]

\* Position of a key in a dict, 0 if it is not in it.
KeyIndex(pointMap, key) ==
    IF \E i \in 1..Len(pointMap) : pointMap[i].key = key
    THEN CHOOSE i \in 1..Len(pointMap) : pointMap[i].key = key
    ELSE 0
FieldIndex(fields, fieldKey) ==
    IF \E i \in 1..Len(fields) : fields[i][1] = fieldKey
    THEN CHOOSE i \in 1..Len(fields) : fields[i][1] = fieldKey
    ELSE 0

\* calculateNrExtraBytes, lines 84-95: the loop over the new fields from
\* position i on.
RECURSIVE FieldsExtraBytes(_, _, _)
FieldsExtraBytes(existingFields, newFields, i) ==
    IF i > Len(newFields) THEN 0
    ELSE LET fieldKey == newFields[i][1]
             j == FieldIndex(existingFields, fieldKey)
         IN  (IF j # 0
              THEN Len(EscapeFieldValue(newFields[i][2]))
                   - Len(EscapeFieldValue(existingFields[j][2]))
              ELSE 1 + Len(EscapeKey(fieldKey)) + 1 + Len(EscapeFieldValue(newFields[i][2])))
             + FieldsExtraBytes(existingFields, newFields, i + 1)

\* PointBuffer.calculateNrExtraBytes (lines 57-96), for a point whose key can
\* be made.
CalculateNrExtraBytes(buf, p) ==
    LET k == KeyIndex(buf.pointMap, CreatePointKey(p))
    IN  (IF k = 0
         THEN Len(EscapeMeasurement(p.measurement))
              + (IF Len(p.tags) > 0 THEN 1 + Len(TagSetToLineProtocol(p.tags)) ELSE 0)
              + (IF p.time # None THEN 1 + Len(StrInt(p.time)) ELSE 0)
              + 1
         ELSE 0)
        + FieldsExtraBytes(IF k = 0 THEN <<>> ELSE buf.pointMap[k].fields, p.fields, 1)

\* existingFields[fieldKey] = value on a dict: in place if the key is there,
\* at the end otherwise.
SetField(fields, fieldKey, value) ==
    LET j == FieldIndex(fields, fieldKey)
    IN  IF j # 0 THEN [fields EXCEPT ![j] = <<fieldKey, value>>]
        ELSE Append(fields, <<fieldKey, value>>)

\* append, lines 109-110: the loop over the new fields from position i on.
RECURSIVE SetFields(_, _, _)
SetFields(existingFields, newFields, i) ==
    IF i > Len(newFields) THEN existingFields
    ELSE SetFields(SetField(existingFields, newFields[i][1], newFields[i][2]),
                   newFields, i + 1)

\* PointBuffer.append without the merge: every point gets an entry of its own.
BufferAppend_NoMerge(buf, p) ==
    [buf EXCEPT !.nrBytes = @ + CalculateNrExtraBytes(buf, p),
                !.pointMap = Append(@, [key |-> CreatePointKey(p), fields |-> p.fields])]

\* PointBuffer.append (lines 98-110), for a point whose key can be made.
BufferAppend(buf, p) ==
    LET pointKey == CreatePointKey(p)
        k == KeyIndex(buf.pointMap, pointKey)
    IN  [buf EXCEPT
            !.nrBytes = @ + CalculateNrExtraBytes(buf, p),
            !.pointMap =
                IF k = 0
                THEN Append(@, [key |-> pointKey, fields |-> SetFields(<<>>, p.fields, 1)])
                ELSE [@ EXCEPT ![k].fields = SetFields(@, p.fields, 1)]]

\* A frozenset of tag pairs as a dict, line 123; the order of the pairs is
\* the set's iteration order, which TagSet.toLineProtocol sorts away.
RECURSIVE TagDict(_)
TagDict(tagSet) ==
    IF tagSet = {} THEN <<>>
    ELSE LET el == CHOOSE el \in tagSet : TRUE
         IN  <<el>> \o TagDict(tagSet \ {el})

\* PointBuffer.toPoints (lines 112-127).  The time of an entry goes through
\* datetime.fromtimestamp(time / 10**9) and, in toLineProtocol, back through
\* int(timestamp() * 10**9); for the times a datetime can hold (whole
\* microseconds) this gives the integer of the key again.
ToPoints(buf) ==
    [i \in 1..Len(buf.pointMap) |->
        Point(buf.namespace, buf.pointMap[i].key[1], buf.pointMap[i].key[2],
              TagDict(buf.pointMap[i].key[3]), buf.pointMap[i].fields)]

\* PointBuffer.toTelemessage (lines 129-138): the lines, before encoding.
ToTelemessageLines(buf) ==
    LET points == ToPoints(buf) IN [i \in 1..Len(points) |-> ToLineProtocol(points[i])]

\* ------------------------------------------- a PointBuffer on its own
\* One PointBuffer and a caller that appends points to it.
\* Number of append calls over a behaviour.
MaxAppends == 3

\* Field values and field sets of the points the caller appends: ints of one
\* and two digits, a bool, a str with a two-byte character and a double
\* quote; no field, one field, two fields.
IntValue(n) == [type |-> "int", v |-> n]
BoolValue(b) == [type |-> "bool", v |-> b]
StrValue(chars) == [type |-> "str", v |-> chars]
BufferFieldSets ==
    { <<>>,
      << <<<<"f">>, IntValue(1)>> >>,
      << <<<<"f">>, IntValue(10)>> >>,
      << <<<<"g">>, StrValue(<<"é", "\"">>)>> >>,
      << <<<<"g">>, BoolValue(TRUE)>>, <<<<"f">>, IntValue(1)>> >> }
\* Tag sets: none, and the same two tags in both insertion orders.
BufferTagSets ==
    { <<>>,
      << <<<<"a">>, <<"b">>>>, <<<<"c">>, <<"b", " ">>>> >>,
      << <<<<"c">>, <<"b", " ">>>>, <<<<"a">>, <<"b">>>> >> }
BufferPoints ==
    { Point("ns", m, t, tags, fields) :
        m \in {<<"m">>, <<"m", ",">>}, t \in {None, 5, 10},
        tags \in BufferTagSets, fields \in BufferFieldSets }

transmitter ==
    <<config, subIdCnt, daemon, folder, worker, close_pc, flush_pc, restarted, history>>
outside_pointbuffer == <<now, transmitter, linger_vars, filter_vars, auth_vars, further_vars>>

\* The transmitter is not constructed.
TransmitterAbsent ==
    /\ snapshot_folder = FALSE /\ max_heap_size = None /\ min_snapshot_age_s = 0
    /\ subIdCnt = 0 /\ folder = {} /\ new_messages = <<>> /\ pending_messages = <<>>
    /\ has_new_messages_or_stop = FALSE /\ stop_signal = FALSE /\ no_messages_left = FALSE
    /\ next_snapshot_moment = 0 /\ worker_pc = "absent" /\ wait_timeout_s = None
    /\ tmw = <<>> /\ close_pc = "absent" /\ flush_pc = "absent" /\ restarted = FALSE
    /\ posts = Fresh /\ last_resp = NoResp /\ outcome = NoResp /\ stop_seen = <<>>

\* PointBuffer(namespace), lines 51-55; `point` records the calls: their
\* number, the last argument, whether the last call raised.
PointBufferInit ==
    /\ now = 0
    /\ TransmitterAbsent
    /\ LingerAbsent
    /\ FilterAbsent
    /\ AuthAbsent
    /\ FurtherAbsent
    /\ buffer = PointBuffer("ns", now)
    /\ point = [n |-> 0, arg |-> None, raised |-> FALSE]

\* buffer.append(p), lines 98-110.
AppendPoint ==
    /\ point.n < MaxAppends
    /\ \E p \in BufferPoints :
          /\ ~CreatePointKeyRaises(p)
          /\ buffer' = BufferAppend(buffer, p)
          /\ point' = [n |-> point.n + 1, arg |-> p, raised |-> FALSE]
    /\ UNCHANGED outside_pointbuffer

\* buffer.append(p) for a point without time: createPointKey raises at line
\* 68, inside calculateNrExtraBytes, before line 105 assigns.
AppendRaises ==
    /\ point.n < MaxAppends
    /\ \E p \in BufferPoints :
          /\ CreatePointKeyRaises(p)
          /\ point' = [n |-> point.n + 1, arg |-> p, raised |-> TRUE]
    /\ UNCHANGED buffer
    /\ UNCHANGED outside_pointbuffer

PointBufferNext ==
    \/ AppendPoint
    \/ AppendRaises

PointBufferSpec == PointBufferInit /\ [][PointBufferNext]_vars

\* What nrBytes counts: for every entry the characters of its line, and one
\* more if the entry has a field.
RECURSIVE CountedBytes(_, _)
CountedBytes(buf, i) ==
    IF i > Len(buf.pointMap) THEN 0
    ELSE Len(ToTelemessageLines(buf)[i])
         + (IF buf.pointMap[i].fields # <<>> THEN 1 ELSE 0)
         + CountedBytes(buf, i + 1)
NrBytesCounts == buffer.nrBytes = CountedBytes(buffer, 1)

\* C11 as stated: nrBytes is the length of the lines of the buffer joined
\* with "\n", that is the number of bytes of the Telemessage made of it.
C11_Original == buffer.nrBytes = TelemessageNrBytes(ToTelemessageLines(buffer))

\* C12: a PointBuffer has no two entries with the same (measurement, time,
\* tag set); an append changes or creates the entry of its point only, in
\* which every field of the point has the point's value and every other field
\* is as before, so that a buffer has one line for each key.
C12_OneEntryPerKey ==
    /\ [](\A i, j \in 1..Len(buffer.pointMap) :
             buffer.pointMap[i].key = buffer.pointMap[j].key => i = j)
    /\ [][(point'.n = point.n + 1 /\ ~point'.raised) =>
            LET p == point'.arg
                old == KeyIndex(buffer.pointMap, CreatePointKey(p))
                new == KeyIndex(buffer'.pointMap, CreatePointKey(p))
                before == IF old = 0 THEN <<>> ELSE buffer.pointMap[old].fields
                after == buffer'.pointMap[new].fields
            IN  /\ new # 0
                /\ Len(buffer'.pointMap) = Len(buffer.pointMap) + (IF old = 0 THEN 1 ELSE 0)
                /\ \A i \in 1..Len(buffer.pointMap) :
                      i # old => buffer'.pointMap[i] = buffer.pointMap[i]
                /\ \A i \in 1..Len(p.fields) : p.fields[i] \in Range(after)
                /\ \A i \in 1..Len(before) :
                      FieldIndex(p.fields, before[i][1]) = 0 => before[i] \in Range(after)
                /\ Len(after) = Cardinality({before[i][1] : i \in 1..Len(before)}
                                            \cup {p.fields[i][1] : i \in 1..Len(p.fields)})
                /\ Len(ToTelemessageLines(buffer')) = Len(buffer'.pointMap)]_vars

\* C12, witness: two points with the same measurement, time and tags (given
\* in different orders) and with disjoint fields were appended, and the buffer
\* has one entry, which carries the fields of both.
C12_Witness ==
    /\ point.n = 2
    /\ ~point.raised
    /\ Len(point.arg.tags) = 2
    /\ Len(buffer.pointMap) = 1
    /\ Len(buffer.pointMap[1].fields) = 2
    /\ buffer.pointMap[1].fields[1][1] = <<"f">>
    /\ point.arg.fields = << <<<<"g">>, StrValue(<<"é", "\"">>)>> >>
    /\ buffer.pointMap[1].fields[2] = point.arg.fields[1]

\* ====================================================== PointBufferDict
\* src/eniris/point/writer/buffered.py, lines 141-391: the dictionary of
\* buffers, the writer in front of it and its linger daemon.

\* Constructor arguments maximumBatchSizeBytes (default 10 MB),
\* maximumBufferSizeBytes (default 100 MB) and lingerTimeS (default 1): the
\* model runs with a batch size that two entries of one field exceed and a
\* buffer size that two buffers can exceed.
maximumBatchSizeBytes == 12
maximumBufferSizeBytes == 20
lingerTimeS == 1

\* dict[key] = value
Put(d, key, value) == [x \in DOMAIN d \cup {key} |-> IF x = key THEN value ELSE d[x]]

\* PointBuffer.toTelemessage (lines 129-138): the Telemessage is kept as its
\* parameters and the entries of the buffer; its lines are those of
\* ToTelemessageLines for a buffer with these entries.
ToTelemessage(buf) == [parameters |-> buf.namespace, entries |-> buf.pointMap]

\* PointBufferDict.flush, lines 223-224: a Telemessage of every buffer, in the
\* order of the dict.
RECURSIVE FlushMessages(_)
FlushMessages(n2b) ==
    IF DOMAIN n2b = {} THEN <<>>
    ELSE LET key == CHOOSE key \in DOMAIN n2b : TRUE
         IN  <<ToTelemessage(n2b[key])>>
             \o FlushMessages([x \in DOMAIN n2b \ {key} |-> n2b[x]])

\* WriteOnePoint without line 196: a batch that reaches its cap is replaced
\* and its bytes stay counted in _nrBytes.
WriteOnePoint_CapKeepsBytes(d, p, t) ==
    LET namespaceKey == p.namespace
        n2b0 == IF namespaceKey \in DOMAIN d.n2b THEN d.n2b
                ELSE Put(d.n2b, namespaceKey, PointBuffer(p.namespace, t))
        buffer0 == n2b0[namespaceKey]
    IN  IF CreatePointKeyRaises(p)
        THEN [d EXCEPT !.n2b = n2b0, !.raised = TRUE]
        ELSE
        LET cap == /\ buffer0.nrBytes > 0
                   /\ buffer0.nrBytes + CalculateNrExtraBytes(buffer0, p) > maximumBatchSizeBytes
            buf == IF cap THEN PointBuffer(p.namespace, t) ELSE buffer0
            msgs == IF cap THEN Append(d.messages, ToTelemessage(buffer0)) ELSE d.messages
        IN  [d EXCEPT !.n2b = Put(n2b0, namespaceKey, BufferAppend(buf, p)),
                      !.nrBytes = (d.nrBytes - buf.nrBytes) + BufferAppend(buf, p).nrBytes,
                      !.messages = msgs,
                      !.appended = Append(@, [namespace |-> p.namespace,
                                              key |-> CreatePointKey(p)])]

\* PointBufferDict.writePoints, lines 184-204: one pass of the loop, for the
\* point p at time t.  d is the state of the call: the dict, _nrBytes, the
\* local list messages, whether an exception left the loop, and (history) the
\* points appended so far.  calculateNrExtraBytes (line 193, evaluated only
\* if buffer.nrBytes > 0) and append (line 203) raise for a point without
\* time.
WriteOnePoint(d, p, t) ==
    LET namespaceKey == p.namespace
        n2b0 == IF namespaceKey \in DOMAIN d.n2b THEN d.n2b
                ELSE Put(d.n2b, namespaceKey, PointBuffer(p.namespace, t))
        buffer0 == n2b0[namespaceKey]
    IN  IF buffer0.nrBytes > 0 /\ CreatePointKeyRaises(p)
        THEN [d EXCEPT !.n2b = n2b0, !.raised = TRUE]
        ELSE
        LET cap == /\ buffer0.nrBytes > 0
                   /\ buffer0.nrBytes + CalculateNrExtraBytes(buffer0, p) > maximumBatchSizeBytes
            buf == IF cap THEN PointBuffer(p.namespace, t) ELSE buffer0
            msgs == IF cap THEN Append(d.messages, ToTelemessage(buffer0)) ELSE d.messages
            nrBytes1 == (IF cap THEN d.nrBytes - buffer0.nrBytes ELSE d.nrBytes) - buf.nrBytes
        IN  IF CreatePointKeyRaises(p)
            THEN [d EXCEPT !.n2b = Put(n2b0, namespaceKey, buf), !.nrBytes = nrBytes1,
                           !.messages = msgs, !.raised = TRUE]
            ELSE [d EXCEPT !.n2b = Put(n2b0, namespaceKey, BufferAppend(buf, p)),
                           !.nrBytes = nrBytes1 + BufferAppend(buf, p).nrBytes,
                           !.messages = msgs,
                           !.appended = Append(@, [namespace |-> p.namespace,
                                                   key |-> CreatePointKey(p)])]

\* Lines 183-204: the loop from position i on.
RECURSIVE WritePointsLoop(_, _, _, _)
WritePointsLoop(d, points, i, t) ==
    IF i > Len(points) \/ d.raised THEN d
    ELSE WritePointsLoop(WriteOnePoint(d, points[i], t), points, i + 1, t)

\* --------------------------------- the buffered writer and its daemon
\* BufferedPointToTelemessageWriter with its PointBufferDict and linger
\* daemon, one client thread (writePoints, flush, stop of the daemon) and the
\* clock.  The critical sections (with self._lock) are single steps; the
\* daemon holds the lock from one wait to the next.
\* linger_pc: "run" (has or is acquiring the lock), "wait_content" (in
\* _hasNewContent.wait(), line 354), "sleep" (in _isKilled.wait(sleepTimeS),
\* line 385), "done" (returned, line 357).

\* Number of writePoints calls over a behaviour, and last value of the clock.
MaxWrites == 2
MaxClock == 2

\* The points the client writes: two namespaces, two times and the absent
\* time, one or two fields; and the lists of one or two of them.
LingerFieldSets ==
    { << <<<<"f">>, IntValue(1)>> >>,
      << <<<<"g">>, BoolValue(TRUE)>>, <<<<"f">>, IntValue(1)>> >> }
LingerPoints ==
    { Point(ns, <<"m">>, t, <<>>, fields) :
        ns \in {"n1", "n2"}, t \in {5, 6}, fields \in LingerFieldSets }
    \cup { Point(ns, <<"m">>, None, <<>>, << <<<<"f">>, IntValue(1)>> >>) : ns \in {"n1", "n2"} }
LingerPointLists ==
    { <<p>> : p \in LingerPoints } \cup { <<p, q>> : p \in LingerPoints, q \in LingerPoints }

outside_linger == <<transmitter, pointbuffer_vars, filter_vars, auth_vars, further_vars>>

\* BufferedPointToTelemessageWriter.__init__ (lines 266-280): an empty dict
\* (lines 161-166), the daemon created with the output (lines 339-344) and
\* started.
LingerInit ==
    /\ now = 0
    /\ TransmitterAbsent
    /\ PointBufferAbsent
    /\ FilterAbsent
    /\ AuthAbsent
    /\ FurtherAbsent
    /\ namespace2buffer = <<>>
    /\ dict_nrBytes = 0
    /\ linger_output = TRUE
    /\ linger_pc = "run"
    /\ linger_wakeup = None
    /\ messages = <<>>
    /\ writes = [n |-> 0, raised |-> FALSE]
    /\ entered = {}
    /\ downstream = EmptyBag

\* The state of a writePoints call when its loop has ended.
AfterLoop(points) ==
    WritePointsLoop([n2b |-> namespace2buffer, nrBytes |-> dict_nrBytes, messages |-> <<>>,
                     raised |-> FALSE, appended |-> <<>>],
                    points, 1, now)

\* writer.writePoints(points), line 291, into PointBufferDict.writePoints
\* (lines 178-210) which returns: the flush of lines 206-207 or the notify of
\* line 209, then the list of messages to the caller.
WritePoints ==
    /\ messages = <<>>
    /\ writes.n < MaxWrites
    /\ \E points \in LingerPointLists :
          LET d == AfterLoop(points)
          IN  /\ ~d.raised
              /\ writes' = [n |-> writes.n + 1, raised |-> FALSE]
              /\ entered' = entered \cup Range(d.appended)
              /\ IF d.nrBytes > maximumBufferSizeBytes
                 THEN /\ messages' = d.messages \o FlushMessages(d.n2b)
                      /\ namespace2buffer' = <<>>
                      /\ dict_nrBytes' = 0
                      /\ UNCHANGED linger_pc
                 ELSE /\ messages' = d.messages
                      /\ namespace2buffer' = d.n2b
                      /\ dict_nrBytes' = d.nrBytes
                      /\ linger_pc' = IF linger_pc = "wait_content" THEN "run" ELSE linger_pc
    /\ UNCHANGED <<now, linger_output, linger_wakeup, downstream, outside_linger>>

\* writer.writePoints(points) with a point without time: the exception of
\* createPointKey leaves the loop, the with block and both writePoints; what
\* the loop did to the dict stays, the local list of messages is gone, and
\* lines 206-209 are not reached.
WritePointsRaises ==
    /\ messages = <<>>
    /\ writes.n < MaxWrites
    /\ \E points \in LingerPointLists :
          LET d == AfterLoop(points)
          IN  /\ d.raised
              /\ writes' = [n |-> writes.n + 1, raised |-> TRUE]
              /\ entered' = entered \cup Range(d.appended)
              /\ namespace2buffer' = d.n2b
              /\ dict_nrBytes' = d.nrBytes
    /\ UNCHANGED <<now, linger_output, linger_pc, linger_wakeup, messages, downstream,
                   outside_linger>>

\* self.output.writeTelemessage(message) by the caller, lines 293 and 305.
OutputWriteTelemessage ==
    /\ messages # <<>>
    /\ downstream' = downstream (+) SetToBag({[msg |-> Head(messages), by |-> "caller"]})
    /\ messages' = Tail(messages)
    /\ UNCHANGED <<now, namespace2buffer, dict_nrBytes, linger_output, linger_pc, linger_wakeup,
                   writes, entered, outside_linger>>

\* writer._flush(), line 303: PointBufferDict.flush (lines 221-227).
FlushBuffers ==
    /\ messages = <<>>
    /\ DOMAIN namespace2buffer # {}
    /\ messages' = FlushMessages(namespace2buffer)
    /\ namespace2buffer' = <<>>
    /\ dict_nrBytes' = 0
    /\ UNCHANGED <<now, linger_output, linger_pc, linger_wakeup, writes, entered, downstream,
                   outside_linger>>

\* daemon.stop() (lines 387-391): _output = None and _isKilled.notify(), which
\* wakes the daemon only if it waits on _isKilled.
LingerStop ==
    /\ linger_output
    /\ linger_output' = FALSE
    /\ linger_pc' = IF linger_pc = "sleep" THEN "run" ELSE linger_pc
    /\ linger_wakeup' = None
    /\ UNCHANGED <<now, namespace2buffer, dict_nrBytes, messages, writes, entered, downstream,
                   outside_linger>>

\* run, lines 350-354: nothing to do, wait for new content.
LingerWaitContent ==
    /\ linger_pc = "run"
    /\ linger_output
    /\ DOMAIN namespace2buffer = {}
    /\ linger_pc' = "wait_content"
    /\ UNCHANGED <<now, namespace2buffer, dict_nrBytes, linger_output, linger_wakeup, messages,
                   writes, entered, downstream, outside_linger>>

\* run, lines 355-357: stopped.
LingerExit ==
    /\ linger_pc = "run"
    /\ ~linger_output
    /\ linger_pc' = "done"
    /\ UNCHANGED <<now, namespace2buffer, dict_nrBytes, linger_output, linger_wakeup, messages,
                   writes, entered, downstream, outside_linger>>

\* Lines 372: the bytes of the buffers written.
RECURSIVE SumNrBytes(_)
SumNrBytes(n2b) ==
    IF DOMAIN n2b = {} THEN 0
    ELSE LET key == CHOOSE key \in DOMAIN n2b : TRUE
         IN  n2b[key].nrBytes + SumNrBytes([x \in DOMAIN n2b \ {key} |-> n2b[x]])

\* Line 364: the buffers that are older than lingerTimeS.
OldBuffers == {key \in DOMAIN namespace2buffer :
                  namespace2buffer[key].creationDt < now - lingerTimeS}

\* run, lines 358-385: write the old buffers to the output, keep the others,
\* sleep until the oldest of them is due (no sleep if that is now or past).
LingerPass ==
    /\ linger_pc = "run"
    /\ linger_output
    /\ DOMAIN namespace2buffer # {}
    /\ LET kept == [key \in DOMAIN namespace2buffer \ OldBuffers |-> namespace2buffer[key]]
           old == [key \in OldBuffers |-> namespace2buffer[key]]
           written == FlushMessages(old)
           minCreationDt == CHOOSE c \in {kept[key].creationDt : key \in DOMAIN kept} :
                               \A key \in DOMAIN kept : c <= kept[key].creationDt
       IN  /\ downstream' = downstream
                 (+) SetToBag({[msg |-> written[k], by |-> "daemon"] : k \in 1..Len(written)})
           /\ namespace2buffer' = kept
           /\ dict_nrBytes' = dict_nrBytes - SumNrBytes(old)
           /\ IF DOMAIN kept # {} /\ (minCreationDt + lingerTimeS) - now > 0
              THEN linger_pc' = "sleep" /\ linger_wakeup' = minCreationDt + lingerTimeS
              ELSE UNCHANGED <<linger_pc, linger_wakeup>>
    /\ UNCHANGED <<now, linger_output, messages, writes, entered, outside_linger>>

\* _isKilled.wait(sleepTimeS) times out.
LingerTimeout ==
    /\ linger_pc = "sleep"
    /\ now >= linger_wakeup
    /\ linger_pc' = "run"
    /\ linger_wakeup' = None
    /\ UNCHANGED <<now, namespace2buffer, dict_nrBytes, linger_output, messages, writes,
                   entered, downstream, outside_linger>>

LingerDaemon ==
    \/ LingerWaitContent
    \/ LingerExit
    \/ LingerPass
    \/ LingerTimeout

\* A thread has a step to take that does not wait for the clock: the caller
\* holds messages, the daemon's wait has timed out, or the daemon runs and
\* its pass would do something.
LingerUrgent ==
    \/ messages # <<>>
    \/ linger_pc = "sleep" /\ now >= linger_wakeup
    \/ /\ linger_pc = "run"
       /\ ~(/\ linger_output
            /\ DOMAIN namespace2buffer # {}
            /\ OldBuffers = {}
            /\ \E key \in DOMAIN namespace2buffer :
                  namespace2buffer[key].creationDt + lingerTimeS <= now)

\* The clock advances, when no thread is due: threads are scheduled within
\* one unit of the clock.
LingerTick ==
    /\ now < MaxClock
    /\ ~LingerUrgent
    /\ now' = now + 1
    /\ UNCHANGED <<linger_vars, outside_linger>>

LingerNext ==
    \/ WritePoints
    \/ WritePointsRaises
    \/ OutputWriteTelemessage
    \/ FlushBuffers
    \/ LingerStop
    \/ LingerDaemon
    \/ LingerTick

LingerSpec == LingerInit /\ [][LingerNext]_vars

\* The daemon thread is scheduled.
LingerFairSpec == LingerSpec /\ WF_vars(LingerDaemon)

\* --------------------------------- claims on the buffered writer

\* The keys of the entries of a point map.
EntryKeys(pointMap) == {pointMap[i].key : i \in 1..Len(pointMap)}

\* The point entry e is in a buffer of the dict, in a Telemessage the caller
\* holds, or in a Telemessage that went to the output.
HeldInDict(e) ==
    /\ e.namespace \in DOMAIN namespace2buffer
    /\ e.key \in EntryKeys(namespace2buffer[e.namespace].pointMap)
HeldByCaller(e) ==
    \E i \in 1..Len(messages) :
        messages[i].parameters = e.namespace /\ e.key \in EntryKeys(messages[i].entries)
HandedDownstream(e) ==
    \E m \in BagToSet(downstream) :
        m.msg.parameters = e.namespace /\ e.key \in EntryKeys(m.msg.entries)

\* C13: in PointBufferDict.writePoints the buffer that a point would push over
\* maximumBatchSizeBytes is emitted as a Telemessage and replaced by a fresh
\* buffer that takes the point: no point that entered a buffer is dropped (it
\* is in the dict, in a Telemessage returned to the caller or in one handed to
\* the output), and a buffer above maximumBatchSizeBytes holds one entry.
C13_Original ==
    /\ \A e \in entered : HeldInDict(e) \/ HeldByCaller(e) \/ HandedDownstream(e)
    /\ \A key \in DOMAIN namespace2buffer :
          namespace2buffer[key].nrBytes > maximumBatchSizeBytes
              => Len(namespace2buffer[key].pointMap) = 1

\* C14: while the daemon runs, no buffer stays in the dict past creationDt +
\* lingerTimeS, also without a further writePoints call: when the clock is
\* past that time for a buffer that holds points, the daemon is about to write the
\* buffer to the output (it runs, or its sleep has timed out).
C14_Original ==
    (linger_output /\ linger_pc # "done") =>
        \A key \in DOMAIN namespace2buffer :
            (/\ namespace2buffer[key].pointMap # <<>>
             /\ now > namespace2buffer[key].creationDt + lingerTimeS)
                => \/ linger_pc = "run"
                   \/ linger_pc = "sleep" /\ now >= linger_wakeup

\* C15: after stop() the daemon thread exits, whatever it was waiting for.
C15_Original == (~linger_output) ~> (linger_pc = "done")

\* ================================================= PointDuplicateFilter
\* src/eniris/point/writer/filter.py.  The clock `now` counts the units of
\* time.time(); a datetime of a point is its number of units.

\* Constructor arguments (lines 63-65; defaults 2 days, 1 000 and 10 000 000):
\* the model runs with an age of two units of the clock, two entries for a
\* series and three entries in all.
maximumEntryAgeS == 2
maximumSeriesEntryCount == 2
maximumEntryCount == 3

\* Python's == on field values (line 156): bool is an int (True == 1), a str
\* equals no number.
PyNum(value) == IF value.type = "bool" THEN (IF value.v THEN 1 ELSE 0) ELSE value.v
PyNe(a, b) ==
    IF a.type = "str" \/ b.type = "str"
    THEN a.type # b.type \/ a.v # b.v
    ELSE PyNum(a) # PyNum(b)

\* Lines 133-145: the key of the series of a field.
SeriesKey(p, fieldKey) == <<p.namespace, p.measurement, Range(p.tags), fieldKey>>

\* The (series, time) entries a list of points writes.
PointEntries(p) ==
    IF p.time = None THEN {}
    ELSE {<<SeriesKey(p, p.fields[i][1]), p.time>> : i \in 1..Len(p.fields)}
BatchEntries(points) == UNION {PointEntries(points[j]) : j \in 1..Len(points)}

\* The entries in memory.
MemoryEntries(mem) ==
    UNION {{<<seriesKey, mem[seriesKey][k].ts>> : k \in 1..Len(mem[seriesKey])} :
              seriesKey \in DOMAIN mem}

\* Position of a time in the OrderedDict of a series, 0 if it is not there.
TsIndex(cached, ts) ==
    IF \E k \in 1..Len(cached) : cached[k].ts = ts
    THEN CHOOSE k \in 1..Len(cached) : cached[k].ts = ts
    ELSE 0

\* No cached value.
NoValue == [type |-> "none", v |-> 0]

\* The least update time of the entries of a series, or of all entries.
OldestUpdateTs(index, seriesKeys) ==
    LET ts == {index[k].updateTs : k \in {k \in 1..Len(index) : index[k].series \in seriesKeys}}
    IN  CHOOSE t \in ts : \A u \in ts : t <= u

\* _delete (lines 94-109).  st is the state of a writePoints call: memory,
\* index (entryKey2updateTs), the list out, updatedFields of the point at
\* hand, and the history of the call: the cached value each field was compared
\* with, the entries evicted for a cap, the entries that expired.
FilterDelete(st, seriesKey, ts) ==
    LET cached == SelectSeq(st.memory[seriesKey], LAMBDA e : e.ts # ts)
    IN  [st EXCEPT
            !.index = SelectSeq(st.index, LAMBDA e : ~(e.series = seriesKey /\ e.ts = ts)),
            !.memory = IF cached = <<>>
                       THEN [k \in DOMAIN st.memory \ {seriesKey} |-> st.memory[k]]
                       ELSE Put(st.memory, seriesKey, cached)]

\* A deleteExpiredEntries that removes nothing.
DeleteExpiredEntries_Off(st, t) == st

\* deleteExpiredEntries (lines 77-92) at time t.
RECURSIVE DeleteExpiredEntries(_, _)
DeleteExpiredEntries(st, t) ==
    IF st.index = <<>> THEN st
    ELSE LET e == Head(st.index)
         IN  IF e.updateTs > t - maximumEntryAgeS THEN st
             ELSE DeleteExpiredEntries(
                      [FilterDelete(st, e.series, e.ts)
                          EXCEPT !.expired = @ \cup {<<e.series, e.ts>>}], t)

\* What an eviction removes: the entry, its update time and the least update
\* time among the entries it was chosen from.
Eviction(cause, st, seriesKey, ts) ==
    LET k == CHOOSE k \in 1..Len(st.index) :
                 st.index[k].series = seriesKey /\ st.index[k].ts = ts
    IN  [cause |-> cause, entry |-> <<seriesKey, ts>>, updateTs |-> st.index[k].updateTs,
         oldest |-> OldestUpdateTs(st.index,
                                   IF cause = "series" THEN {seriesKey}
                                   ELSE {st.index[j].series : j \in 1..Len(st.index)})]

\* Lines 161-163: the first time of the OrderedDict of the series goes, as
\* long as the series has too many (cachedSeriesValues is the object in
\* memory: with a cap of one or more it is never emptied here).
RECURSIVE SeriesCap(_, _)
SeriesCap(st, seriesKey) ==
    IF seriesKey \notin DOMAIN st.memory
       \/ Len(st.memory[seriesKey]) <= maximumSeriesEntryCount
    THEN st
    ELSE LET p2Ts == Head(st.memory[seriesKey]).ts
         IN  SeriesCap([FilterDelete(st, seriesKey, p2Ts)
                           EXCEPT !.evictions = Append(@, Eviction("series", st, seriesKey, p2Ts))],
                       seriesKey)

\* writePoints without the loop of lines 164-166.
GlobalCap_Off(st) == st

\* Lines 164-166: the first entry of entryKey2updateTs goes, as long as there
\* are too many.
RECURSIVE GlobalCap(_)
GlobalCap(st) ==
    IF Len(st.index) <= maximumEntryCount THEN st
    ELSE LET e == Head(st.index)
         IN  GlobalCap([FilterDelete(st, e.series, e.ts)
                           EXCEPT !.evictions = Append(@, Eviction("global", st, e.series, e.ts))])

\* Lines 139-166 with every field taken as updated (no test in lines 154-157).
WriteField_AlwaysUpdated(st, p, i, currentTs) ==
    LET fieldKey == p.fields[i][1]
        fieldValue == p.fields[i][2]
        seriesKey == SeriesKey(p, fieldKey)
        index1 == Append(SelectSeq(st.index,
                                   LAMBDA e : ~(e.series = seriesKey /\ e.ts = p.time)),
                         [series |-> seriesKey, ts |-> p.time, updateTs |-> currentTs])
        cachedSeriesValues == IF seriesKey \in DOMAIN st.memory THEN st.memory[seriesKey]
                              ELSE <<>>
        k == TsIndex(cachedSeriesValues, p.time)
        updated == TRUE
        cached1 == IF k = 0
                   THEN Append(cachedSeriesValues, [ts |-> p.time, value |-> fieldValue])
                   ELSE IF updated THEN [cachedSeriesValues EXCEPT ![k].value = fieldValue]
                        ELSE cachedSeriesValues
        st1 == [st EXCEPT
                   !.index = index1,
                   !.memory = Put(st.memory, seriesKey, cached1),
                   !.updatedFields = IF updated THEN Append(@, p.fields[i]) ELSE @,
                   !.lookup = Append(@, [field |-> p.fields[i],
                                         cached |-> IF k = 0 THEN NoValue
                                                    ELSE cachedSeriesValues[k].value])]
    IN  GlobalCap(SeriesCap(st1, seriesKey))

\* Lines 139-166 for field i of point p.
WriteField(st, p, i, currentTs) ==
    LET fieldKey == p.fields[i][1]
        fieldValue == p.fields[i][2]
        seriesKey == SeriesKey(p, fieldKey)
        index1 == Append(SelectSeq(st.index,
                                   LAMBDA e : ~(e.series = seriesKey /\ e.ts = p.time)),
                         [series |-> seriesKey, ts |-> p.time, updateTs |-> currentTs])
        cachedSeriesValues == IF seriesKey \in DOMAIN st.memory THEN st.memory[seriesKey]
                              ELSE <<>>
        k == TsIndex(cachedSeriesValues, p.time)
        updated == k = 0 \/ PyNe(cachedSeriesValues[k].value, fieldValue)
        cached1 == IF k = 0
                   THEN Append(cachedSeriesValues, [ts |-> p.time, value |-> fieldValue])
                   ELSE IF updated THEN [cachedSeriesValues EXCEPT ![k].value = fieldValue]
                        ELSE cachedSeriesValues
        st1 == [st EXCEPT
                   !.index = index1,
                   !.memory = Put(st.memory, seriesKey, cached1),
                   !.updatedFields = IF updated THEN Append(@, p.fields[i]) ELSE @,
                   !.lookup = Append(@, [field |-> p.fields[i],
                                         cached |-> IF k = 0 THEN NoValue
                                                    ELSE cachedSeriesValues[k].value])]
    IN  GlobalCap(SeriesCap(st1, seriesKey))

\* The loop of line 139 from field i on.
RECURSIVE WriteFields(_, _, _, _)
WriteFields(st, p, i, currentTs) ==
    IF i > Len(p.fields) THEN st
    ELSE WriteFields(WriteField(st, p, i, currentTs), p, i + 1, currentTs)

\* Lines 129-177 for one point.
FilterWritePoint(st, p, currentTs) ==
    IF p.time = None
    THEN [st EXCEPT !.out = Append(@, p), !.lookups = Append(@, <<>>)]
    ELSE LET st1 == WriteFields([st EXCEPT !.updatedFields = <<>>, !.lookup = <<>>],
                                p, 1, currentTs)
         IN  [st1 EXCEPT
                 !.out = IF Len(st1.updatedFields) > 0
                         THEN Append(@, Point(p.namespace, p.measurement, p.time, p.tags,
                                              st1.updatedFields))
                         ELSE @,
                 !.lookups = Append(@, st1.lookup)]

\* The loop of line 128 from point j on.
RECURSIVE FilterLoop(_, _, _, _)
FilterLoop(st, points, j, currentTs) ==
    IF j > Len(points) THEN st
    ELSE FilterLoop(FilterWritePoint(st, points[j], currentTs), points, j + 1, currentTs)

\* Number of writePoints calls over a behaviour, and last value of the clock.
MaxFilterWrites == 3
MaxFilterClock == 2

\* The points the client writes: one namespace and measurement, no tags, three
\* times and the absent time, without field or with fields a and b; and the
\* lists: empty, one point, the same point twice, two points of the series of
\* field a.
FilterFieldSets ==
    { <<>>,
      << <<<<"a">>, IntValue(1)>> >>,
      << <<<<"a">>, BoolValue(TRUE)>> >>,
      << <<<<"a">>, IntValue(1)>>, <<<<"b">>, IntValue(2)>> >>,
      << <<<<"a">>, IntValue(1)>>, <<<<"b">>, IntValue(3)>> >> }
FilterPoints ==
    { Point("ns", <<"m">>, t, <<>>, fields) : t \in {1, 2, 3}, fields \in FilterFieldSets }
    \cup { Point("ns", <<"m">>, None, <<>>, fields) :
             fields \in {<<>>, << <<<<"a">>, IntValue(1)>> >>} }
FilterSeriesPoints ==
    { Point("ns", <<"m">>, t, <<>>, << <<<<"a">>, IntValue(1)>> >>) : t \in {1, 2, 3} }
FilterBatches ==
    {<<>>} \cup { <<p>> : p \in FilterPoints } \cup { <<p, p>> : p \in FilterPoints }
    \cup { <<p, q>> : p \in FilterSeriesPoints, q \in FilterSeriesPoints }

outside_filter == <<transmitter, pointbuffer_vars, linger_vars, auth_vars, further_vars>>

\* PointDuplicateFilter(output, ...), lines 60-75.
FilterInit ==
    /\ now = 0
    /\ TransmitterAbsent
    /\ PointBufferAbsent
    /\ LingerAbsent
    /\ AuthAbsent
    /\ FurtherAbsent
    /\ memory = <<>>
    /\ entryKey2updateTs = <<>>
    /\ filter_last = [n |-> 0, points |-> <<>>, calls |-> <<>>, lookups |-> <<>>,
                      evictions |-> <<>>, fresh |-> FALSE, lost |-> FALSE]
    /\ filter_written = {}
    /\ filter_removed = FALSE

\* writePoints(points), lines 111-179.  calls are the lists given to
\* self.output.writePoints (lines 178-179); fresh: no entry of the points was
\* in memory when the call began; lost: an entry of the points expired or was
\* evicted during the call.
FilterWritePoints ==
    /\ filter_last.n < MaxFilterWrites
    /\ \E points \in FilterBatches :
          LET st0 == [memory |-> memory, index |-> entryKey2updateTs, out |-> <<>>,
                      updatedFields |-> <<>>, lookup |-> <<>>, lookups |-> <<>>,
                      evictions |-> <<>>, expired |-> {}]
              st == IF Len(points) = 0 THEN st0
                    ELSE FilterLoop(DeleteExpiredEntries(st0, now), points, 1, now)
              gone == st.expired \cup {st.evictions[k].entry : k \in 1..Len(st.evictions)}
          IN  /\ memory' = st.memory
              /\ entryKey2updateTs' = st.index
              /\ filter_last' = [n |-> filter_last.n + 1, points |-> points,
                                 calls |-> IF Len(st.out) > 0 THEN <<st.out>> ELSE <<>>,
                                 lookups |-> st.lookups,
                                 evictions |-> st.evictions,
                                 fresh |-> BatchEntries(points) \cap MemoryEntries(memory) = {},
                                 lost |-> BatchEntries(points) \cap gone # {}]
              /\ filter_written' = filter_written \cup BatchEntries(points)
              /\ filter_removed' =
                    (\/ filter_removed
                     \/ st.expired # {}
                     \/ \E k \in 1..Len(st.evictions) : st.evictions[k].cause = "series")
    /\ UNCHANGED <<now, outside_filter>>

\* time.time() advances.
FilterTick ==
    /\ now < MaxFilterClock
    /\ now' = now + 1
    /\ UNCHANGED <<filter_vars, outside_filter>>

FilterNext ==
    \/ FilterWritePoints
    \/ FilterTick

FilterSpec == FilterInit /\ [][FilterNext]_vars

\* --------------------------------- claims on the duplicate filter

\* The list holds one point with a time and with fields, once or more.
SamePoint(points) ==
    /\ points # <<>>
    /\ \A j \in 1..Len(points) : points[j] = points[1]
    /\ points[1].time # None
    /\ points[1].fields # <<>>

\* C16 (idempotence): the first write of a point with a time (no entry of it is
\* cached, none is evicted) forwards the full point, once also if the list
\* holds it twice; writing the same point again in the next call, with no
\* expiry or eviction of its entries, forwards nothing.
C16_FirstTime ==
    (/\ filter_last.n > 0
     /\ SamePoint(filter_last.points)
     /\ filter_last.fresh
     /\ ~filter_last.lost)
        => filter_last.calls = << <<filter_last.points[1]>> >>
C16_SecondTime ==
    (/\ filter_last.n > 0
     /\ filter_last'.n = filter_last.n + 1
     /\ SamePoint(filter_last.points)
     /\ SamePoint(filter_last'.points)
     /\ filter_last'.points[1] = filter_last.points[1]
     /\ ~filter_last.lost
     /\ ~filter_last'.lost)
        => filter_last'.calls = <<>>
C16_Idempotent == [](C16_FirstTime) /\ [][C16_SecondTime]_vars

\* The list <<p, p>> of a point with two fields, written to the empty filter:
\* the output got the list <<p>>.
C16_Witness ==
    /\ filter_last.n > 0
    /\ Len(filter_last.points) = 2
    /\ SamePoint(filter_last.points)
    /\ Len(filter_last.points[1].fields) = 2
    /\ filter_last.fresh
    /\ ~filter_last.lost
    /\ filter_last.calls = << <<filter_last.points[1]>> >>

\* What the output is to get for the points of the last call: a point without
\* time as it is, of a point with a time the fields whose value was not cached
\* or differs from the cached value, nothing if there is no such field.
RECURSIVE C17_Expected(_)
C17_Expected(j) ==
    IF j > Len(filter_last.points) THEN <<>>
    ELSE LET p == filter_last.points[j]
             surviving == SelectSeq(filter_last.lookups[j],
                                    LAMBDA l : l.cached = NoValue \/ l.cached # l.field[2])
             fields == [k \in 1..Len(surviving) |-> surviving[k].field]
         IN  (IF p.time = None THEN <<p>>
              ELSE IF surviving = <<>> THEN <<>>
              ELSE <<Point(p.namespace, p.measurement, p.time, p.tags, fields)>>)
             \o C17_Expected(j + 1)

\* The value memory holds for an entry, NoValue if it holds none.
CachedValue(seriesKey, ts) ==
    IF seriesKey \in DOMAIN memory /\ TsIndex(memory[seriesKey], ts) # 0
    THEN memory[seriesKey][TsIndex(memory[seriesKey], ts)].value
    ELSE NoValue

\* C17 (field-level granularity): the filter forwards of each point with a
\* time exactly the fields whose value is absent from the cache or differs from
\* the cached value, and the cache then holds the new value; a point without
\* surviving field is dropped; the output is never called with an empty list
\* nor with a point without fields.
C17_Original ==
    filter_last.n > 0 =>
        /\ filter_last.calls = IF C17_Expected(1) = <<>> THEN <<>> ELSE <<C17_Expected(1)>>
        /\ \A c \in Range(filter_last.calls) :
              c # <<>> /\ \A i \in 1..Len(c) : c[i].fields # <<>>
        /\ Len(filter_last.points) = 1 /\ filter_last.points[1].time # None =>
              \A i \in 1..Len(filter_last.points[1].fields) :
                  LET p == filter_last.points[1]
                      cached == CachedValue(SeriesKey(p, p.fields[i][1]), p.time)
                  IN  cached = NoValue \/ cached = p.fields[i][2]

\* The number of entries in memory.
EntryCount == Cardinality(MemoryEntries(memory))

\* The caps hold: at most maximumEntryCount entries, in memory as in
\* entryKey2updateTs, and at most maximumSeriesEntryCount for a series.
CapsHold ==
    /\ EntryCount <= maximumEntryCount
    /\ Len(entryKey2updateTs) = EntryCount
    /\ \A seriesKey \in DOMAIN memory : Len(memory[seriesKey]) <= maximumSeriesEntryCount

\* C18, as stated: the caps hold after every call, and once more than
\* maximumEntryCount distinct series-timestamps were written the entry count
\* equals maximumEntryCount.
C18_Original ==
    /\ CapsHold
    /\ Cardinality(filter_written) > maximumEntryCount => EntryCount = maximumEntryCount

\* C18, amended: the caps hold after every call, and once more than
\* maximumEntryCount distinct series-timestamps were written the entry count
\* equals maximumEntryCount if no entry expired and none was evicted for the
\* cap of its series.
C18_Amended ==
    /\ CapsHold
    /\ (Cardinality(filter_written) > maximumEntryCount /\ ~filter_removed)
           => EntryCount = maximumEntryCount

\* Four entries written, the first evicted for the global cap, three left.
C18_Witness ==
    /\ Cardinality(filter_written) > maximumEntryCount
    /\ ~filter_removed
    /\ \E k \in 1..Len(filter_last.evictions) : filter_last.evictions[k].cause = "global"
    /\ EntryCount = maximumEntryCount

\* C19: an entry evicted for a cap is the least recently updated one, of its
\* series for the cap of the series and of all entries for the global cap.
C19_Original ==
    \A k \in 1..Len(filter_last.evictions) :
        filter_last.evictions[k].updateTs = filter_last.evictions[k].oldest

\* ============================================================ ApiDriver
\* src/eniris/driver.py: the token cache of the API driver.  The clock `now`
\* counts minutes.  The refresh token ages of 7, 13 and 14 days (lines 113-114,
\* 188, 211, 278) are beyond the clock of this specification: a refresh token
\* that is there is returned as it is.

\* Line 247: an access token is used for 2 * 60 seconds.
AccessTokenLifetime == 2

\* Constructor argument maximumRetries (default 4; the model retries once) and
\* the status codes of lines 11-17.
driver_maximumRetries == 1
DEFAULT_RETRY_CODES == {"429", "500", "503"}

\* What the server answers to a request: a status code, or no answer in time
\* (requests.Timeout); a request is given the answers of its attempts.
AuthStatuses == {"200", "204", "401", "503", "timeout"}
AuthAnswers == [1..(driver_maximumRetries + 1) -> AuthStatuses]

\* self.refreshDtAndToken = None, self.accessDtAndToken = None (lines 173, 175).
NoneDtAndToken == [dt |-> None, token |-> None]

\* f"Bearer {token}" (lines 236, 271).
Bearer(token) == <<"Bearer ", token>>

\* retryRequest (lines 23-110) from attempt retryNr on: the number of requests
\* made and the last answer, "timeout" if the exception is raised (line 90).
RECURSIVE RetryRequest(_, _)
RetryRequest(answers, retryNr) ==
    LET resp == answers[retryNr + 1]
    IN  IF (resp = "timeout" \/ resp \in DEFAULT_RETRY_CODES)
           /\ retryNr + 1 <= driver_maximumRetries
        THEN RetryRequest(answers, retryNr + 1)
        ELSE [requests |-> retryNr + 1, resp |-> resp]

\* The test of lines 245-248 without the age: no token is ever too old.
AccessTokenExpired_Never(currentDt) == accessDtAndToken = NoneDtAndToken

\* The test of lines 245-248.
AccessTokenExpired(currentDt) ==
    \/ accessDtAndToken = NoneDtAndToken
    \/ currentDt - accessDtAndToken.dt > AccessTokenLifetime

\* Number of calls over a behaviour, and last value of the clock.
MaxAuthCalls == 4
MaxAuthClock == 4

outside_auth == <<transmitter, pointbuffer_vars, linger_vars, filter_vars, further_vars>>

\* ApiDriver(username, password, ...), lines 158-176.  auth_last records a
\* call: what was called and when, the access token cache before it, the
\* requests it made (all, and the GET /auth/accesstoken among them), the first
\* answer to GET /auth/accesstoken, what it returned and when.
AuthInit ==
    /\ now = 0
    /\ TransmitterAbsent
    /\ PointBufferAbsent
    /\ LingerAbsent
    /\ FilterAbsent
    /\ FurtherAbsent
    /\ refreshDtAndToken = NoneDtAndToken
    /\ accessDtAndToken = NoneDtAndToken
    /\ auth_issued = <<>>
    /\ auth_last = [n |-> 0, op |-> "none", before |-> NoneDtAndToken, at |-> 0, http |-> 0,
                    gets |-> 0, first |-> "none", result |-> <<>>, raised |-> FALSE,
                    returned |-> 0]

\* accesstoken() with a token in the cache that is not too old (lines 243-248,
\* 271).
AccesstokenCached ==
    /\ auth_last.n < MaxAuthCalls
    /\ ~AccessTokenExpired(now)
    /\ auth_last' = [n |-> auth_last.n + 1, op |-> "accesstoken", before |-> accessDtAndToken,
                     at |-> now, http |-> 0, gets |-> 0, first |-> "none",
                     result |-> Bearer(accessDtAndToken.token), raised |-> FALSE,
                     returned |-> now]
    /\ UNCHANGED <<now, refreshDtAndToken, accessDtAndToken, auth_issued, outside_auth>>

\* accesstoken() without token or with a token that is too old (lines 243-271):
\* retryRequest, which asks refreshtoken() for the header of each attempt
\* (lines 68-69; lines 183-236: a login if there is no refresh token, which
\* raises AuthenticationFailure unless it is answered 200), then the GET.  The
\* call takes d minutes; the server issues the token during the call.
AccesstokenRequest ==
    /\ auth_last.n < MaxAuthCalls
    /\ AccessTokenExpired(now)
    /\ \E login \in AuthAnswers, get \in AuthAnswers, d \in 0..1 :
          LET currentDt == now
              needLogin == refreshDtAndToken = NoneDtAndToken
              lg == RetryRequest(login, 0)
              loggedIn == ~needLogin \/ lg.resp = "200"
              rq == RetryRequest(get, 0)
              ok == loggedIn /\ rq.resp = "200"
              token == Len(auth_issued) + 1
          IN  /\ now + d <= MaxAuthClock
              /\ now' = now + d
              /\ refreshDtAndToken' = IF needLogin /\ loggedIn
                                      THEN [dt |-> currentDt, token |-> 0]
                                      ELSE refreshDtAndToken
              /\ accessDtAndToken' = IF ok THEN [dt |-> currentDt, token |-> token]
                                     ELSE accessDtAndToken
              /\ IF ok THEN \E issued \in now..(now + d) :
                                auth_issued' = Append(auth_issued, issued)
                 ELSE UNCHANGED auth_issued
              /\ auth_last' = [n |-> auth_last.n + 1, op |-> "accesstoken",
                               before |-> accessDtAndToken, at |-> currentDt,
                               http |-> (IF needLogin THEN lg.requests ELSE 0)
                                        + (IF loggedIn THEN rq.requests ELSE 0),
                               gets |-> IF loggedIn THEN rq.requests ELSE 0,
                               first |-> IF loggedIn THEN get[1] ELSE "none",
                               result |-> IF ok THEN Bearer(token) ELSE <<>>,
                               raised |-> ~ok,
                               returned |-> now + d]
    /\ UNCHANGED outside_auth

\* close() (lines 273-304): nothing without refresh token; else the logout,
\* which clears both tokens if it is answered 204 or 401.
DriverClose ==
    /\ auth_last.n < MaxAuthCalls
    /\ IF refreshDtAndToken = NoneDtAndToken
       THEN /\ auth_last' = [n |-> auth_last.n + 1, op |-> "close", before |-> accessDtAndToken,
                             at |-> now, http |-> 0, gets |-> 0, first |-> "none",
                             result |-> <<>>, raised |-> FALSE, returned |-> now]
            /\ UNCHANGED <<now, refreshDtAndToken, accessDtAndToken>>
       ELSE \E logout \in AuthAnswers, d \in 0..1 :
               LET rq == RetryRequest(logout, 0)
                   ok == rq.resp \in {"204", "401"}
               IN  /\ now + d <= MaxAuthClock
                   /\ now' = now + d
                   /\ refreshDtAndToken' = IF ok THEN NoneDtAndToken ELSE refreshDtAndToken
                   /\ accessDtAndToken' = IF ok THEN NoneDtAndToken ELSE accessDtAndToken
                   /\ auth_last' = [n |-> auth_last.n + 1, op |-> "close",
                                    before |-> accessDtAndToken, at |-> now,
                                    http |-> rq.requests, gets |-> 0, first |-> "none",
                                    result |-> <<>>, raised |-> ~ok, returned |-> now + d]
    /\ UNCHANGED <<auth_issued, outside_auth>>

\* datetime.datetime.now() advances.
AuthTick ==
    /\ now < MaxAuthClock
    /\ now' = now + 1
    /\ UNCHANGED <<auth_vars, outside_auth>>

AuthNext ==
    \/ AccesstokenCached
    \/ AccesstokenRequest
    \/ DriverClose
    \/ AuthTick

AuthSpec == AuthInit /\ [][AuthNext]_vars

\* C20 (access token cache): a call of accesstoken() with a cached token of
\* an age of at most 2 minutes returns that token as 'Bearer <token>' and makes
\* no HTTP request; a call with a cached token older than that, whose GET
\* /auth/accesstoken is answered 200, makes exactly one such GET, caches the
\* new token and returns it; no token is returned more than 2 minutes after
\* the server issued it.
C20_TokenCache ==
    auth_last.op = "accesstoken" =>
        /\ (auth_last.before # NoneDtAndToken
            /\ auth_last.at - auth_last.before.dt <= AccessTokenLifetime)
               => /\ auth_last.result = Bearer(auth_last.before.token)
                  /\ auth_last.http = 0
                  /\ accessDtAndToken = auth_last.before
        /\ (auth_last.before # NoneDtAndToken
            /\ auth_last.at - auth_last.before.dt > AccessTokenLifetime
            /\ auth_last.first = "200")
               => /\ auth_last.gets = 1
                  /\ ~auth_last.raised
                  /\ auth_last.result # Bearer(auth_last.before.token)
                  /\ accessDtAndToken.dt = auth_last.at
                  /\ auth_last.result = Bearer(accessDtAndToken.token)
        /\ auth_last.result # <<>>
               => auth_last.returned - auth_issued[auth_last.result[2]] <= AccessTokenLifetime

\* A call made when the first token was three minutes old got the second
\* token with one GET.
C20_Witness ==
    /\ auth_last.op = "accesstoken"
    /\ auth_last.before # NoneDtAndToken
    /\ auth_last.at - auth_last.before.dt > AccessTokenLifetime
    /\ auth_last.first = "200"
    /\ auth_last.gets = 1
    /\ auth_last.result = Bearer(2)
    /\ accessDtAndToken = [dt |-> auth_last.at, token |-> 2]

\* ---------------------------------------------------------------------------
\* Point.toLineProtocol as a function: src/eniris/point/point.py.
\* LineProtocolSpec takes a Point from a bounded set, encodes it, and takes
\* the next one.  The decoder below is the reader of the line protocol that
\* the escape rules are written for: a backslash escapes the character after
\* it, a string field value runs to the first double quote that is not
\* escaped.
\* ---------------------------------------------------------------------------
SubStr(s, a, b) == IF b < a THEN <<>> ELSE SubSeq(s, a, b)

\* The index of the first character of s at or after i that is in seps and is
\* not escaped by a backslash; Len(s) + 1 when there is none.
RECURSIVE ScanTo(_, _, _)
ScanTo(s, i, seps) ==
    IF i > Len(s) THEN Len(s) + 1
    ELSE IF s[i] = "\\" /\ i < Len(s) THEN ScanTo(s, i + 2, seps)
    ELSE IF s[i] \in seps THEN i
    ELSE ScanTo(s, i + 1, seps)

\* The reverse of the escape rules: a backslash before one of the characters
\* in specials, or before a backslash, is dropped.
RECURSIVE Unescape(_, _)
Unescape(s, specials) ==
    IF s = <<>> THEN <<>>
    ELSE IF Head(s) = "\\" /\ Len(s) > 1 /\ s[2] \in (specials \cup {"\\"})
         THEN <<s[2]>> \o Unescape(SubStr(s, 3, Len(s)), specials)
    ELSE <<Head(s)>> \o Unescape(Tail(s), specials)

KeySpecials == {",", "=", " "}
MeasurementSpecials == {",", " "}
StringSpecials == {"\""}

\* The key=value pairs that start at index i, up to the space that ends the
\* tag set or the field set: [pairs, next] with next the index after them.
\* inFields: a value that starts with a double quote is a string.
RECURSIVE DecodePairs(_, _, _)
DecodePairs(s, i, inFields) ==
    IF i > Len(s) THEN [pairs |-> <<>>, next |-> i]
    ELSE
        LET j == ScanTo(s, i, {"="})
            key == Unescape(SubStr(s, i, j - 1), KeySpecials)
            quoted == inFields /\ j + 1 <= Len(s) /\ s[j + 1] = "\""
            k == ScanTo(s, j + 2, {"\""})
            m == IF quoted THEN ScanTo(s, k + 1, {",", " "})
                 ELSE ScanTo(s, j + 1, {",", " "})
            value == IF quoted
                     THEN [type |-> "str",
                           v |-> Unescape(SubStr(s, j + 2, k - 1), StringSpecials)]
                     ELSE IF inFields THEN [type |-> "raw", v |-> SubStr(s, j + 1, m - 1)]
                     ELSE Unescape(SubStr(s, j + 1, m - 1), KeySpecials)
            rest == IF m <= Len(s) /\ s[m] = ","
                    THEN DecodePairs(s, m + 1, inFields)
                    ELSE [pairs |-> <<>>, next |-> m]
        IN  [pairs |-> << <<key, value>> >> \o rest.pairs, next |-> rest.next]

\* The measurement, the tag pairs and the field pairs of a line.
DecodeLine(line) ==
    LET a == ScanTo(line, 1, {",", " "})
        tags == IF a <= Len(line) /\ line[a] = ","
                THEN DecodePairs(line, a + 1, FALSE)
                ELSE [pairs |-> <<>>, next |-> a]
        fields == DecodePairs(line, tags.next + 1, TRUE)
    IN  [measurement |-> Unescape(SubStr(line, 1, a - 1), MeasurementSpecials),
         tags |-> tags.pairs,
         fields |-> fields.pairs]

\* The inputs: strings with each of the characters the escape rules name,
\* tag sets in both insertion orders, a key that is the start of another key.
LpMeasurements == { <<"m">>, <<"m", ",", " ">>, <<"\\", "m", "=">> }
LpTagSets ==
    { <<>>,
      << <<<<"a">>, <<"b">>>>, <<<<"a", "1">>, <<"c">>>> >>,
      << <<<<"a", "1">>, <<"c">>>>, <<<<"a">>, <<"b">>>> >>,
      << <<<<"a">>, <<"c">>>>, <<<<"b">>, <<"b", " ">>>> >>,
      << <<<<"b">>, <<"a">>>>, <<<<"a">>, <<"c", "=">>>> >>,
      << <<<<"a", ",">>, <<"\\">>>>, <<<<"a", " ", "=">>, <<"b", "\\", ",">>>> >> }
LpFieldSets ==
    { << <<<<"f">>, IntValue(1)>> >>,
      << <<<<"f", " ">>, StrValue(<<"a", "b">>)>> >>,
      << <<<<"f">>, StrValue(<<"a", "\\", "b">>)>>, <<<<"g", "=">>, BoolValue(TRUE)>> >>,
      << <<<<"f">>, StrValue(<<"a", "\"", "b">>)>> >>,
      << <<<<"g", ",">>, StrValue(<<",", "=", " ">>)>>, <<<<"f">>, IntValue(0 - 2)>> >> }
LpPoints ==
    { Point("ns", m, t, tags, fields) :
        m \in LpMeasurements, t \in {None, 5}, tags \in LpTagSets, fields \in LpFieldSets }

\* No line yet: a line is never the empty string.
NoLine == <<>>

outside_lp ==
    <<now, transmitter, pointbuffer_vars, linger_vars, filter_vars, auth_vars, direct_vars,
      lock_vars, caller, pool_vars>>

LpInit ==
    /\ now = 0
    /\ TransmitterAbsent
    /\ PointBufferAbsent
    /\ LingerAbsent
    /\ FilterAbsent
    /\ AuthAbsent
    /\ DirectAbsent
    /\ LockAbsent
    /\ CallerAbsent
    /\ PoolAbsent
    /\ lp_point \in LpPoints
    /\ lp_line = NoLine

\* Point.toLineProtocol() of the point at hand.
LpEncode ==
    /\ lp_line = NoLine
    /\ lp_line' = ToLineProtocol(lp_point)
    /\ UNCHANGED <<lp_point, outside_lp>>

\* The caller takes another point.
LpNextPoint ==
    /\ lp_line # NoLine
    /\ lp_point' \in LpPoints
    /\ lp_line' = NoLine
    /\ UNCHANGED outside_lp

LpNext == LpEncode \/ LpNextPoint
LineProtocolSpec == LpInit /\ [][LpNext]_vars

\* The tag sets with the same pairs as tags, in every insertion order.
Reordered(tags) ==
    { [i \in 1..Len(tags) |-> tags[f[i]]] :
        f \in { g \in [1..Len(tags) -> 1..Len(tags)] :
                  \A i, j \in 1..Len(tags) : i # j => g[i] # g[j] } }

\* C26: toLineProtocol places the tag pairs in lexicographic order of their
\* escaped keys, whatever the insertion order and the tag values: in the line
\* of every point the escaped keys ascend, and a point with the same tags
\* inserted in another order gives the same line.
C26_Original ==
    lp_line # NoLine =>
        LET tags == DecodeLine(lp_line).tags
        IN  /\ Len(tags) = Len(lp_point.tags)
            /\ \A i \in 1..(Len(tags) - 1) :
                  StrLt(EscapeKey(tags[i][1]), EscapeKey(tags[i + 1][1]))
            /\ \A other \in Reordered(lp_point.tags) :
                  ToLineProtocol([lp_point EXCEPT !.tags = other]) = lp_line

\* C25: the escaping is invertible: decoding the line of a point gives back
\* its measurement, its tag keys and values, its field keys and its string
\* field values.
C25_Original ==
    lp_line # NoLine =>
        LET d == DecodeLine(lp_line)
        IN  /\ d.measurement = lp_point.measurement
            /\ Range(d.tags) = Range(lp_point.tags)
            /\ Len(d.fields) = Len(lp_point.fields)
            /\ \A i \in 1..Len(lp_point.fields) :
                  /\ d.fields[i][1] = lp_point.fields[i][1]
                  /\ lp_point.fields[i][2].type = "str"
                        => d.fields[i][2] = lp_point.fields[i][2]

\* ---------------------------------------------------------------------------
\* PointBufferDict._nrBytes (buffered.py lines 168-227, 358-375).  Every
\* action of LingerSpec that touches the dictionary is one section under
\* PointBufferDict._lock, so the lock is free in every state.
\* ---------------------------------------------------------------------------

\* C30: whenever the buffer lock is free, _nrBytes is the sum of nrBytes over
\* the buffers in _namespace2buffer, after any interleaving of writePoints
\* (batch-cap resets included), flush and the flushes of the linger daemon.
C30_NrBytesIsSum == dict_nrBytes = SumNrBytes(namespace2buffer)

\* A writePoints call has replaced a full batch (it hands a Telemessage back
\* while bytes stay buffered), and the daemon has flushed a buffer before.
C30_Witness ==
    /\ messages # <<>>
    /\ dict_nrBytes > 0
    /\ \E e \in BagToSet(downstream) : e.by = "daemon"

\* ---------------------------------------------------------------------------
\* ApiDriver.refreshtoken and ApiDriver.close: src/eniris/driver.py.
\* RefreshSpec runs the driver over days: its clock counts days, a call takes
\* no time at that scale, and an age is compared in seconds as in the code.
\* A token is the number the server gave it; auth_issued counts the tokens
\* issued so far.
\* ---------------------------------------------------------------------------
DayS == 24 * 60 * 60

\* Lines 113-114, and the 14 days of line 279.
REFRESHTOKEN_LIFETIME_DURATION_S == 13 * 24 * 60 * 60
REFRESHTOKEN_FRESHNESS_DURATION_S == 7 * 24 * 60 * 60
LogoutAgeS == 14 * 24 * 60 * 60

\* (currentDt - dtAndToken[0]).total_seconds()
AgeS(dtAndToken, currentDt) == (currentDt - dtAndToken.dt) * DayS

\* The test of lines 185-189 without the age: a cached refresh token is
\* never taken for expired.
NeedsLogin_NoLifetime(refresh, currentDt) == refresh = NoneDtAndToken

\* The test of lines 185-189.
NeedsLogin(refresh, currentDt) ==
    \/ refresh = NoneDtAndToken
    \/ AgeS(refresh, currentDt) > REFRESHTOKEN_LIFETIME_DURATION_S

\* The test of lines 207-209.
NeedsRenewal(refresh, currentDt) ==
    AgeS(refresh, currentDt) > REFRESHTOKEN_FRESHNESS_DURATION_S

\* A refreshtoken() that stores the body of the answer to the login before
\* it tests the status.
RefreshtokenOutcomes_StoresFirst(refresh, currentDt, issued) ==
    IF NeedsLogin(refresh, currentDt)
    THEN { LET lg == RetryRequest(login, 0)
           IN  [refresh |-> [dt |-> currentDt, token |-> issued + 1],
                issued |-> issued + 1, logins |-> lg.requests, renews |-> 0,
                raised |-> lg.resp # "200", resp |-> lg.resp]
           : login \in AuthAnswers }
    ELSE { [refresh |-> refresh, issued |-> issued, logins |-> 0, renews |-> 0,
            raised |-> FALSE, resp |-> "none"] }

\* refreshtoken() (lines 177-236) at currentDt, with the cache refresh and
\* issued tokens handed out so far: the set of its outcomes, one for each way
\* the server can answer.  An outcome is the cache after the call, the
\* number of tokens issued, the POST /auth/login and GET /auth/refreshtoken
\* requests made, whether AuthenticationFailure was raised, and the answer to
\* the last request.
RefreshtokenOutcomes(refresh, currentDt, issued) ==
    IF NeedsLogin(refresh, currentDt)
    THEN { LET lg == RetryRequest(login, 0)
           IN  IF lg.resp = "200"
               THEN [refresh |-> [dt |-> currentDt, token |-> issued + 1],
                     issued |-> issued + 1, logins |-> lg.requests, renews |-> 0,
                     raised |-> FALSE, resp |-> lg.resp]
               ELSE [refresh |-> refresh, issued |-> issued, logins |-> lg.requests,
                     renews |-> 0, raised |-> TRUE, resp |-> lg.resp]
           : login \in AuthAnswers }
    ELSE IF NeedsRenewal(refresh, currentDt)
    THEN { IF a = "200"
           THEN [refresh |-> [dt |-> currentDt, token |-> issued + 1],
                 issued |-> issued + 1, logins |-> 0, renews |-> 1,
                 raised |-> FALSE, resp |-> a]
           ELSE [refresh |-> refresh, issued |-> issued, logins |-> 0, renews |-> 1,
                 raised |-> FALSE, resp |-> a]
           : a \in AuthStatuses }
    ELSE { [refresh |-> refresh, issued |-> issued, logins |-> 0, renews |-> 0,
            raised |-> FALSE, resp |-> "none"] }

\* retryRequest (lines 23-110) with authorizationHeaderFunction =
\* self.refreshtoken, from attempt retryNr on: every attempt calls
\* refreshtoken() for its header (lines 68-69) and then makes the request.  An
\* AuthenticationFailure of refreshtoken() leaves retryRequest at once (resp
\* "authfail", no request made in that attempt); a timeout or a status in
\* retryStatusCodes is retried while retryNr + 1 <= maximumRetries.  An
\* outcome: the refresh cache, the tokens issued, the logins and renewals of
\* the headers, the requests made and the last answer.
RECURSIVE AuthorizedRequestOutcomes(_, _, _, _)
AuthorizedRequestOutcomes(refresh, currentDt, issued, retryNr) ==
    UNION {
        IF h.raised
        THEN { [refresh |-> h.refresh, issued |-> h.issued, logins |-> h.logins,
                renews |-> h.renews, requests |-> 0, resp |-> "authfail"] }
        ELSE UNION {
            IF (a = "timeout" \/ a \in DEFAULT_RETRY_CODES)
               /\ retryNr + 1 <= driver_maximumRetries
            THEN { [o EXCEPT !.logins = @ + h.logins, !.renews = @ + h.renews,
                             !.requests = @ + 1]
                   : o \in AuthorizedRequestOutcomes(h.refresh, currentDt, h.issued,
                                                     retryNr + 1) }
            ELSE { [refresh |-> h.refresh, issued |-> h.issued, logins |-> h.logins,
                    renews |-> h.renews, requests |-> 1, resp |-> a] }
            : a \in AuthStatuses }
        : h \in RefreshtokenOutcomes(refresh, currentDt, issued) }

\* The test of lines 245-248 on the clock of days.
AccessTokenExpiredOn(currentDt) ==
    \/ accessDtAndToken = NoneDtAndToken
    \/ AgeS(accessDtAndToken, currentDt) > 2 * 60

\* Number of calls over a behaviour, and last day of the clock.
MaxRefreshCalls == 3
MaxRefreshClock == 15

\* ApiDriver(username, password, ...), lines 158-176.  auth_last records a
\* call: what was called and when, both caches before it, the requests made
\* (logins, renewals, GET /auth/accesstoken, POST /auth/logout), the last
\* answer to the request of the call, whether it raised, what it returned.
RefreshInit ==
    /\ now = 0
    /\ TransmitterAbsent
    /\ PointBufferAbsent
    /\ LingerAbsent
    /\ FilterAbsent
    /\ FurtherAbsent
    /\ refreshDtAndToken = NoneDtAndToken
    /\ accessDtAndToken = NoneDtAndToken
    /\ auth_issued = 0
    /\ auth_last = [n |-> 0, op |-> "none", at |-> 0, refresh |-> NoneDtAndToken,
                    access |-> NoneDtAndToken, logins |-> 0, renews |-> 0, gets |-> 0,
                    logouts |-> 0, resp |-> "none", raised |-> FALSE, result |-> <<>>]

\* refreshtoken() called by the user of the driver (lines 177-236).
RefreshtokenCall ==
    /\ auth_last.n < MaxRefreshCalls
    /\ \E o \in RefreshtokenOutcomes(refreshDtAndToken, now, auth_issued) :
          /\ refreshDtAndToken' = o.refresh
          /\ auth_issued' = o.issued
          /\ auth_last' = [n |-> auth_last.n + 1, op |-> "refreshtoken", at |-> now,
                           refresh |-> refreshDtAndToken, access |-> accessDtAndToken,
                           logins |-> o.logins, renews |-> o.renews, gets |-> 0,
                           logouts |-> 0, resp |-> o.resp, raised |-> o.raised,
                           result |-> IF o.raised THEN <<>> ELSE Bearer(o.refresh.token)]
    /\ UNCHANGED <<now, accessDtAndToken, outside_auth>>

\* accesstoken() (lines 238-271): the cached token, or GET /auth/accesstoken
\* through retryRequest; anything but a 200 raises AuthenticationFailure.
AccesstokenCall ==
    /\ auth_last.n < MaxRefreshCalls
    /\ IF ~AccessTokenExpiredOn(now)
       THEN /\ auth_last' = [n |-> auth_last.n + 1, op |-> "accesstoken", at |-> now,
                             refresh |-> refreshDtAndToken, access |-> accessDtAndToken,
                             logins |-> 0, renews |-> 0, gets |-> 0, logouts |-> 0,
                             resp |-> "none", raised |-> FALSE,
                             result |-> Bearer(accessDtAndToken.token)]
            /\ UNCHANGED <<refreshDtAndToken, accessDtAndToken, auth_issued>>
       ELSE \E o \in AuthorizedRequestOutcomes(refreshDtAndToken, now, auth_issued, 0) :
               LET ok == o.resp = "200"
               IN  /\ refreshDtAndToken' = o.refresh
                   /\ accessDtAndToken' = IF ok THEN [dt |-> now, token |-> o.issued + 1]
                                          ELSE accessDtAndToken
                   /\ auth_issued' = IF ok THEN o.issued + 1 ELSE o.issued
                   /\ auth_last' = [n |-> auth_last.n + 1, op |-> "accesstoken", at |-> now,
                                    refresh |-> refreshDtAndToken,
                                    access |-> accessDtAndToken,
                                    logins |-> o.logins, renews |-> o.renews,
                                    gets |-> o.requests, logouts |-> 0, resp |-> o.resp,
                                    raised |-> ~ok,
                                    result |-> IF ok THEN Bearer(o.issued + 1) ELSE <<>>]
    /\ UNCHANGED <<now, outside_auth>>

\* close() (lines 273-304): nothing without refresh token or with one older
\* than 14 days; else POST /auth/logout through retryRequest, whose header is
\* refreshtoken(); 204 and 401 unset both caches, anything else raises
\* AuthenticationFailure.
CloseCall ==
    /\ auth_last.n < MaxRefreshCalls
    /\ IF \/ refreshDtAndToken = NoneDtAndToken
          \/ AgeS(refreshDtAndToken, now) > LogoutAgeS
       THEN /\ auth_last' = [n |-> auth_last.n + 1, op |-> "close", at |-> now,
                             refresh |-> refreshDtAndToken, access |-> accessDtAndToken,
                             logins |-> 0, renews |-> 0, gets |-> 0, logouts |-> 0,
                             resp |-> "none", raised |-> FALSE, result |-> <<>>]
            /\ UNCHANGED <<refreshDtAndToken, accessDtAndToken, auth_issued>>
       ELSE \E o \in AuthorizedRequestOutcomes(refreshDtAndToken, now, auth_issued, 0) :
               LET ok == o.resp \in {"204", "401"}
               IN  /\ refreshDtAndToken' = IF ok THEN NoneDtAndToken ELSE o.refresh
                   /\ accessDtAndToken' = IF ok THEN NoneDtAndToken ELSE accessDtAndToken
                   /\ auth_issued' = o.issued
                   /\ auth_last' = [n |-> auth_last.n + 1, op |-> "close", at |-> now,
                                    refresh |-> refreshDtAndToken,
                                    access |-> accessDtAndToken,
                                    logins |-> o.logins, renews |-> o.renews, gets |-> 0,
                                    logouts |-> o.requests, resp |-> o.resp,
                                    raised |-> ~ok, result |-> <<>>]
    /\ UNCHANGED <<now, outside_auth>>

\* A day passes.
RefreshTick ==
    /\ now < MaxRefreshClock
    /\ now' = now + 1
    /\ UNCHANGED <<auth_vars, outside_auth>>

RefreshNext ==
    \/ RefreshtokenCall
    \/ AccesstokenCall
    \/ CloseCall
    \/ RefreshTick

RefreshSpec == RefreshInit /\ [][RefreshNext]_vars

\* C21 (refresh-token state machine): a call of refreshtoken() logs in (POST
\* /auth/login) exactly if no refresh token is cached or the cached one is
\* older than 13 days, and caches the token of a 200 answer with the time of
\* the call; with a token older than 7 and at most 13 days it makes one GET
\* /auth/refreshtoken and no login, a 200 replaces token and timestamp, any
\* other answer keeps both; with a token of at most 7 days it makes no
\* request; and the token it returns is never older than 13 days in the cache.
C21_RefreshStateMachine ==
    auth_last.op = "refreshtoken" =>
        LET before == auth_last.refresh
            unset == before = NoneDtAndToken
            age == AgeS(before, auth_last.at)
            expired == unset \/ age > 13 * DayS
        IN  /\ auth_last.logins > 0 <=> expired
            /\ (expired /\ auth_last.resp = "200") =>
                  /\ refreshDtAndToken.dt = auth_last.at
                  /\ refreshDtAndToken.token = auth_issued
                  /\ refreshDtAndToken # before
                  /\ auth_last.result = Bearer(refreshDtAndToken.token)
            /\ (expired /\ auth_last.resp # "200") =>
                  auth_last.raised /\ refreshDtAndToken = before
            /\ (~expired /\ age > 7 * DayS) =>
                  /\ auth_last.renews = 1
                  /\ IF auth_last.resp = "200"
                     THEN /\ refreshDtAndToken.dt = auth_last.at
                          /\ refreshDtAndToken.token = auth_issued
                          /\ refreshDtAndToken.token # before.token
                     ELSE refreshDtAndToken = before
                  /\ auth_last.result = Bearer(refreshDtAndToken.token)
            /\ (~expired /\ age <= 7 * DayS) =>
                  /\ auth_last.renews = 0
                  /\ refreshDtAndToken = before
                  /\ auth_last.result = Bearer(before.token)
            /\ ~auth_last.raised =>
                  AgeS(refreshDtAndToken, auth_last.at) <= 13 * DayS

\* A token of 13 days is renewed, the server does not answer 200, and the
\* old token is returned.
C21_Witness ==
    /\ auth_last.op = "refreshtoken"
    /\ auth_last.refresh # NoneDtAndToken
    /\ AgeS(auth_last.refresh, auth_last.at) = 13 * DayS
    /\ auth_last.renews = 1
    /\ auth_last.resp = "503"
    /\ auth_last.result = Bearer(auth_last.refresh.token)

\* C22 (close): with a cached refresh token of at most 14 days close() POSTs
\* /auth/logout; a 204 or 401 unsets both cached tokens, any other status
\* raises AuthenticationFailure and leaves both cached tokens as they were;
\* without refresh token, or with one older than 14 days, close() makes no
\* HTTP request.
C22_Original ==
    auth_last.op = "close" =>
        LET before == auth_last.refresh
            logout == before # NoneDtAndToken /\ AgeS(before, auth_last.at) <= 14 * DayS
        IN  IF logout
            THEN /\ auth_last.logouts >= 1
                 /\ IF auth_last.resp \in {"204", "401"}
                    THEN /\ ~auth_last.raised
                         /\ refreshDtAndToken = NoneDtAndToken
                         /\ accessDtAndToken = NoneDtAndToken
                    ELSE /\ auth_last.raised
                         /\ refreshDtAndToken = before
                         /\ accessDtAndToken = auth_last.access
            ELSE /\ auth_last.logins + auth_last.renews + auth_last.logouts = 0
                 /\ ~auth_last.raised
                 /\ refreshDtAndToken = before
                 /\ accessDtAndToken = auth_last.access

\* ---------------------------------------------------------------------------
\* DirectTelemessageWriter: src/eniris/telemessage/writer/direct.py, with
\* retryRequest of src/eniris/driver.py.  DirectSpec follows one
\* writeTelemessage call attempt by attempt; the recursion of retryRequest is
\* its loop.
\* ---------------------------------------------------------------------------

\* Constructor arguments maximumRetries (default 4), initialRetryDelayS
\* (default 1), maximumRetryDelayS (default 60), with small values: the
\* delays 1, 2 and the capped 3.
direct_maximumRetries == 3
direct_initialRetryDelayS == 1
direct_maximumRetryDelayS == 3

\* What a POST is answered: a status, or an exception of the transport
\* (requests.Timeout, requests.ConnectionError).
DirectTransportExceptions == {"Timeout", "ConnectionError"}
DirectStatuses == {"204", "400", "429", "503"}
DirectAnswers == DirectStatuses \cup DirectTransportExceptions

\* What authorizationHeaderFunction() does (driver.py lines 68-69): it returns
\* a header, or raises; ApiDriver.accesstoken raises AuthenticationFailure, and
\* lets a requests.ConnectionError pass.  Without function there is no call.
DirectHeaderOutcomes ==
    IF direct_auth THEN {"header", "AuthenticationFailure", "ConnectionError"} ELSE {"none"}

\* driver.py lines 77, 97: min(initialRetryDelayS * 2**retryNr, maximumRetryDelayS)
DirectRetryDelay(retryNr) ==
    Min(direct_initialRetryDelayS * 2 ^ retryNr, direct_maximumRetryDelayS)

\* driver.py lines 75, 92: retryNr + 1 <= maximumRetries
DirectMayRetry(retryNr) == retryNr + 1 <= direct_maximumRetries

\* The message handed to writeTelemessage: a Telemessage (telemessage.py lines
\* 15-37: attributes parameters, data and headers), or an object that has the
\* attribute lines that line 86 reads.
DirectMessages == {"Telemessage", "lines"}

outside_direct ==
    <<now, transmitter, pointbuffer_vars, linger_vars, filter_vars, auth_vars, lp_vars,
      lock_vars, caller, pool_vars>>

\* DirectTelemessageWriter(...), lines 49-73, with or without
\* authorizationHeaderFunction.
DirectInit ==
    /\ now = 0
    /\ TransmitterAbsent
    /\ PointBufferAbsent
    /\ LingerAbsent
    /\ FilterAbsent
    /\ AuthAbsent
    /\ LpAbsent
    /\ LockAbsent
    /\ CallerAbsent
    /\ PoolAbsent
    /\ direct_auth \in BOOLEAN
    /\ direct_call = [pc |-> "idle", message |-> "none", retryNr |-> 0, raised |-> "none",
                      code |-> "none"]
    /\ direct_log = <<>>

\* writeTelemessage(message) is called (line 75) and evaluates the arguments
\* of retryRequest (lines 83-92): message.lines in line 86 raises
\* AttributeError for a Telemessage, which has no such attribute.  Otherwise
\* the caller is blocked in retryRequest until the call ends.
DirectWriteTelemessage ==
    /\ direct_call.pc # "running"
    /\ \E message \in DirectMessages :
          direct_call' =
              IF message = "Telemessage"
              THEN [pc |-> "raised", message |-> message, retryNr |-> 0,
                    raised |-> "AttributeError", code |-> "none"]
              ELSE [pc |-> "running", message |-> message, retryNr |-> 0,
                    raised |-> "none", code |-> "none"]
    /\ direct_log' = <<>>
    /\ UNCHANGED <<direct_auth, outside_direct>>

\* One pass of retryRequest (driver.py lines 66-110) and, when it is the last
\* one, lines 94-95 of writeTelemessage.  The header function is called
\* first; an exception of it that is no transport exception leaves
\* retryRequest.  A transport exception, of the header function or of the
\* POST, and a status in retryStatusCodes are retried after a sleep while
\* retryNr + 1 <= maximumRetries.
DirectAttempt ==
    /\ direct_call.pc = "running"
    /\ \E h \in DirectHeaderOutcomes, a \in DirectAnswers :
          LET retryNr == direct_call.retryNr
              posted == h \in {"header", "none"}
              resp == IF posted THEN a ELSE h
              exception == resp \in DirectTransportExceptions
              retry == /\ resp # "AuthenticationFailure"
                       /\ exception \/ resp \in DEFAULT_RETRY_CODES
                       /\ DirectMayRetry(retryNr)
              entry == [header |-> h, post |-> IF posted THEN a ELSE "none",
                        slept |-> IF retry THEN DirectRetryDelay(retryNr) ELSE 0]
          IN  /\ ~posted => a = "204"
              /\ direct_log' = Append(direct_log, entry)
              /\ direct_call' =
                    IF retry THEN [direct_call EXCEPT !.retryNr = retryNr + 1]
                    ELSE IF resp = "AuthenticationFailure" \/ exception
                    THEN [direct_call EXCEPT !.pc = "raised", !.raised = resp]
                    ELSE IF resp # "204"
                    THEN [direct_call EXCEPT
                            !.pc = "raised",
                            !.raised = "DirectTelemessageWriterUnexpectedResponse",
                            !.code = resp]
                    ELSE [direct_call EXCEPT !.pc = "returned"]
    /\ UNCHANGED <<direct_auth, outside_direct>>

DirectNext == DirectWriteTelemessage \/ DirectAttempt
DirectSpec == DirectInit /\ [][DirectNext]_vars

\* The POSTs of the call so far, and its last attempt.
DirectPosts == {i \in 1..Len(direct_log) : direct_log[i].post # "none"}
DirectLast ==
    IF direct_log = <<>> THEN [header |-> "none", post |-> "none", slept |-> 0]
    ELSE direct_log[Len(direct_log)]
DirectEnded == direct_call.pc \in {"returned", "raised"}

\* The parts of C24 that do not depend on how the call ends: the sleep before
\* retry n + 1 is min(initialRetryDelayS * 2^n, maximumRetryDelayS), there are
\* at most maximumRetries + 1 POSTs, and the call returns exactly if its last
\* POST was answered 204.
C24_Backoff ==
    /\ \A i \in 1..Len(direct_log) :
          (i < Len(direct_log) \/ direct_call.pc = "running") =>
              direct_log[i].slept
                  = Min(direct_initialRetryDelayS * 2 ^ (i - 1), direct_maximumRetryDelayS)
    /\ Cardinality(DirectPosts) <= direct_maximumRetries + 1
    /\ Len(direct_log) <= direct_maximumRetries + 1
    /\ DirectEnded => (direct_call.pc = "returned" <=> DirectLast.post = "204")

\* The three ends of the claim: a return after a 204, the typed exception
\* with the status of the last answer, the transport exception of the last
\* of maximumRetries + 1 attempts.
C24_ThreeEnds ==
    \/ direct_call.pc = "returned" /\ DirectLast.post = "204"
    \/ /\ direct_call.raised = "DirectTelemessageWriterUnexpectedResponse"
       /\ DirectLast.post \in DirectStatuses \ {"204"}
       /\ direct_call.code = DirectLast.post
    \/ /\ direct_call.raised \in DirectTransportExceptions
       /\ Len(direct_log) = direct_maximumRetries + 1
       /\ direct_call.raised \in {DirectLast.post, DirectLast.header}

\* C24: writeTelemessage ends in exactly one of: a normal return iff a POST
\* was answered 204; DirectTelemessageWriterUnexpectedResponse with the status
\* when the last answer has another status; the transport exception when
\* timeouts and connection errors exhaust the retries.  It sleeps
\* min(initialRetryDelayS * 2^n, maximumRetryDelayS) before retry n + 1 and
\* makes at most maximumRetries + 1 POSTs.
C24_Original == C24_Backoff /\ (DirectEnded => C24_ThreeEnds)

\* ---------------------------------------------------------------------------
\* BackgroundTelemessageWriterDaemon.close(blocking=True), background.py lines
\* 227-236: the caller sets the stop signal and the wake event and then waits
\* for _no_messages_left.  BlockingCloseSpec is the transmitter of Init with a
\* caller that writes messages and then closes the daemon this way; close_pc
\* runs "idle", "set_event", "wait", "returned".
\* ---------------------------------------------------------------------------

\* writeTelemessage by the caller that will call close: before its close.
WriteBeforeClose == close_pc = "idle" /\ WriteTelemessage

\* close(blocking=True), lines 234-235: the wake event is set, and the caller
\* goes on to wait.
CloseBlockingSetEvent ==
    /\ close_pc = "set_event"
    /\ has_new_messages_or_stop' = TRUE
    /\ close_pc' = "wait"
    /\ UNCHANGED <<now, config, elsewhere, subIdCnt, new_messages, pending_messages, stop_signal,
                   no_messages_left, next_snapshot_moment, folder, worker, flush_pc,
                   restarted, history>>

\* close(blocking=True), line 236: self._no_messages_left.wait() returns.
CloseBlockingReturn ==
    /\ close_pc = "wait"
    /\ no_messages_left
    /\ close_pc' = "returned"
    /\ UNCHANGED <<now, config, elsewhere, subIdCnt, daemon, folder, worker, flush_pc,
                   restarted, history>>

BlockingCloseNext ==
    \/ Tick
    \/ WriteBeforeClose
    \/ CloseSetStop
    \/ CloseBlockingSetEvent
    \/ CloseBlockingReturn
    \/ WorkerNext

BlockingCloseSpec == Init /\ [][BlockingCloseNext]_vars

\* The backend answers every request (the worker thread goes on whenever it
\* can), and the caller inside close() goes on to its next statement.
BlockingCloseFairSpec ==
    /\ BlockingCloseSpec
    /\ WF_vars(WorkerNext)
    /\ WF_vars(CloseBlockingSetEvent)
    /\ WF_vars(CloseBlockingReturn)

\* C27: close(blocking=True) eventually returns once the backend answers every
\* request, without and with a snapshot folder, whether or not messages are
\* pending when close is called.
C27_Original == (close_pc = "wait") ~> (close_pc = "returned")

\* ---------------------------------------------------------------------------
\* The lazy heap cap, background.py lines 424-434, as the worker applies it at
\* line 291 of every iteration that sent a message (the step from "send" to
\* "signal").
\* ---------------------------------------------------------------------------

\* C28: with maxHeapSize configured, pending holds at most maxHeapSize
\* wrappers at the end of every worker iteration; the cap step removes only
\* trailing elements of the heap array (never the minimum when maxHeapSize >=
\* 1) and leaves the remaining elements and their order as they were; without
\* maxHeapSize the step changes nothing.  The heap before the cap step is
\* pending as it was, or with the failed wrapper pushed back.
C28_LazyCap ==
    /\ []((max_heap_size # None /\ worker_pc = "signal")
            => Len(pending_messages) <= max_heap_size)
    /\ [][SendStep =>
            \E h \in {pending_messages, HeapPush(pending_messages, Rescheduled(tmw[1]))} :
                /\ Len(pending_messages') <= Len(h)
                /\ pending_messages' = SubSeq(h, 1, Len(pending_messages'))
                /\ max_heap_size = None => pending_messages' = h
                /\ max_heap_size # None =>
                      Len(pending_messages') = Min(Len(h), max_heap_size)
                /\ (max_heap_size # None /\ max_heap_size >= 1 /\ h # <<>>) =>
                      pending_messages'[1] = h[1]]_vars

\* A written message is neither held nor answered for good nor logged as
\* dropped, and the worker has not been stopped or restarted: the cap step
\* removed it from the end of the heap, and the wrapper at the front stayed.
C28_Witness ==
    /\ max_heap_size = 1
    /\ worker_pc = "signal"
    /\ ~restarted
    /\ stop_seen = <<>>
    /\ Len(pending_messages) = 1
    /\ \E m \in 1..subIdCnt : outcome[m] = "none" /\ ~InMemory(m)

\* ---------------------------------------------------------------------------
\* The snapshot folder after a pass of __take_snapshot, background.py lines
\* 437-490: the periodic pass of run (lines 293-295, part of the step from
\* "send" to "signal") and the pass at shutdown (lines 282-284).
\* ---------------------------------------------------------------------------
PeriodicPass == snapshot_folder /\ SendStep /\ now > next_snapshot_moment
ShutdownPass == snapshot_folder /\ worker_pc = "final_snapshot" /\ worker_pc' = "done"

\* Lines 461-472: the files a pass opens for writing, given the files that
\* exist: those of the pending wrappers old enough that have no file yet.
SnapshotWritten(existing, pending, t, minAge) ==
    {SnapshotFilename(w) :
        w \in {x \in Range(pending) :
                  ~(x.creationDt > t - minAge) /\ SnapshotFilename(x) \notin existing}}

\* C29: after each completed snapshot pass, periodic or at shutdown, the files
\* in the folder are the snapshot file names of the pending wrappers that are
\* at least minimumSnaphotAgeS old: no file of an acknowledged or dropped
\* message is left, and a file that existed for a wrapper still pending (one
\* reloaded from it included) is kept and is not among the files written.
C29_SnapshotFolder ==
    [][(PeriodicPass \/ ShutdownPass) =>
         /\ folder' = {SnapshotFilename(w) :
                          w \in {x \in Range(pending_messages') :
                                    now - x.creationDt >= min_snapshot_age_s}}
         /\ \A m \in SubIds :
               outcome'[m] \in Terminal => ~(\E f \in folder' : f[2] = m)
         /\ \A i \in 1..Len(pending_messages') :
               SnapshotFilename(pending_messages'[i]) \in folder
                  => SnapshotFilename(pending_messages'[i]) \in folder'
         /\ folder' \ folder
               = SnapshotWritten(folder, pending_messages', now, min_snapshot_age_s)]_vars

\* Both messages were reloaded from their files; the new worker got the first
\* one acknowledged and was closed: after the pass at shutdown the file of the
\* first is gone and the file of the second, still pending and never sent by
\* this worker, is there.
C29_Witness ==
    /\ restarted
    /\ worker_pc = "done"
    /\ outcome[1] = "acked"
    /\ posts[1] >= 1
    /\ outcome[2] = "reloaded"
    /\ Ids(pending_messages) = {2}
    /\ \A f \in folder : f[2] = 2
    /\ SnapshotFilename(pending_messages[1]) \in folder

\* ---------------------------------------------------------------------------
\* The locks of the pipeline: PointDuplicateFilter.lock (filter.py line 75),
\* PointBufferDict._lock (buffered.py), the _lock of the background
\* transmitter (background.py line 190), ApiDriver.accessTokenLock and
\* refreshTokenLock (driver.py lines 172-174), all of them RLocks.  LockSpec
\* runs the threads of a pipeline filter -> buffered writer -> transmitter ->
\* driver; a thread takes one of the paths of its code, given as the sequence
\* of acquisitions and releases on it, and goes through it step by step.  A
\* wait on a condition of a lock releases the lock and acquires it again.
\* TelemessageWrapper._subIdCntLock (background.py lines 30-33) is taken and
\* released inside writeTelemessage with nothing acquired under it, and is
\* left out.
\* ---------------------------------------------------------------------------
Locks == {"filter", "buffer", "transmitter", "access", "refresh"}
Threads == {"filter caller", "buffer caller", "linger daemon", "worker", "auth caller"}

Acq(lock) == <<"acquire", lock>>
Rel(lock) == <<"release", lock>>

\* A refreshtoken that takes the access token lock while it holds its own.
RefreshtokenLocks_TakesAccess ==
    <<Acq("refresh"), Acq("access"), Rel("access"), Rel("refresh")>>

\* ApiDriver.refreshtoken (driver.py lines 183-236): with self.refreshTokenLock.
RefreshtokenLocks == <<Acq("refresh"), Rel("refresh")>>

\* ApiDriver.accesstoken (driver.py lines 243-271): with self.accessTokenLock;
\* a cached token, or retryRequest, an attempt of which calls refreshtoken()
\* for its header (lines 68-69).
AccesstokenLocks ==
    { <<Acq("access"), Rel("access")>>,
      <<Acq("access")>> \o RefreshtokenLocks \o <<Rel("access")>> }

\* BackgroundTelemessageWriterDaemon.writeTelemessage (background.py lines
\* 216-219): with self._lock.
TransmitterWriteLocks == <<Acq("transmitter"), Rel("transmitter")>>

\* BufferedPointToTelemessageWriter.writePoints (buffered.py lines 291-298)
\* and _flush (lines 303-310).  PointBufferDict.writePoints (with self._lock,
\* lines 181-206) returns no message, or calls flush() (lines 218-226, the
\* same lock again) and returns one; PointBufferDict.flush returns one or
\* none.  The lock released, a message goes to the output, the transmitter.
BufferedWriterLocks ==
    { <<Acq("buffer"), Rel("buffer")>>,
      <<Acq("buffer"), Acq("buffer"), Rel("buffer"), Rel("buffer")>> \o TransmitterWriteLocks,
      <<Acq("buffer"), Rel("buffer")>> \o TransmitterWriteLocks }

\* PointDuplicateFilter.writePoints (filter.py lines 125-179): with self.lock,
\* deleteExpiredEntries inside it (line 79, the same lock again), and after
\* the lock is released the output, if a point is left.
FilterLocks ==
    LET own == <<Acq("filter"), Acq("filter"), Rel("filter"), Rel("filter")>>
    IN  {own} \cup { own \o b : b \in BufferedWriterLocks }

\* BufferedPointToTelemessageWriterDaemon.run (buffered.py lines 348-385)
\* from one wait to the next: the wait returns with the lock, the daemon
\* writes a Telemessage to its output for an old buffer (line 366) or not,
\* and waits again (lines 354, 385) or leaves (line 357).
LingerLocks ==
    { <<Acq("buffer"), Rel("buffer")>>,
      <<Acq("buffer")>> \o TransmitterWriteLocks \o <<Rel("buffer")>> }

\* The worker of the transmitter, one iteration of run (background.py lines
\* 277-299): the drain of __get_next (lines 374-378), __send with the header
\* function (lines 309-313) accesstoken or none, the test of lines 297-299.
WorkerLocks ==
    LET drain == <<Acq("transmitter"), Rel("transmitter")>>
    IN  {drain, drain \o drain} \cup { drain \o a \o drain : a \in AccesstokenLocks }

\* A user of the driver: accesstoken(), refreshtoken(), or close() (driver.py
\* lines 273-304, which takes no lock itself and calls refreshtoken()).
AuthCallerLocks == AccesstokenLocks \cup {RefreshtokenLocks}

Paths(t) ==
    CASE t = "filter caller" -> FilterLocks
      [] t = "buffer caller" -> BufferedWriterLocks
      [] t = "linger daemon" -> LingerLocks
      [] t = "worker" -> WorkerLocks
      [] t = "auth caller" -> AuthCallerLocks

Idle == [path |-> <<>>, done |-> 0]

outside_lock ==
    <<now, transmitter, pointbuffer_vars, linger_vars, filter_vars, auth_vars, lp_vars,
      direct_vars, caller, pool_vars>>

LockInit ==
    /\ now = 0
    /\ TransmitterAbsent
    /\ PointBufferAbsent
    /\ LingerAbsent
    /\ FilterAbsent
    /\ AuthAbsent
    /\ LpAbsent
    /\ DirectAbsent
    /\ CallerAbsent
    /\ PoolAbsent
    /\ lock_owner = [l \in Locks |-> "none"]
    /\ lock_count = [l \in Locks |-> 0]
    /\ lock_thread = [t \in Threads |-> Idle]

\* The next operation of a thread on its path.
NextOp(t) == lock_thread[t].path[lock_thread[t].done + 1]
Running(t) == lock_thread[t].done < Len(lock_thread[t].path)

\* A thread after its next operation: at the end of its path it is idle.
Advance(t) ==
    IF lock_thread[t].done + 1 = Len(lock_thread[t].path) THEN Idle
    ELSE [lock_thread[t] EXCEPT !.done = @ + 1]

\* A thread enters one of its paths.
LockStart(t) ==
    /\ ~Running(t)
    /\ \E path \in Paths(t) : lock_thread' = [lock_thread EXCEPT ![t] = [path |-> path, done |-> 0]]
    /\ UNCHANGED <<lock_owner, lock_count, outside_lock>>

\* RLock.acquire: the lock is free, or the thread owns it already.
LockAcquire(t) ==
    /\ Running(t)
    /\ NextOp(t)[1] = "acquire"
    /\ LET l == NextOp(t)[2]
       IN  /\ lock_owner[l] \in {"none", t}
           /\ lock_owner' = [lock_owner EXCEPT ![l] = t]
           /\ lock_count' = [lock_count EXCEPT ![l] = @ + 1]
    /\ lock_thread' = [lock_thread EXCEPT ![t] = Advance(t)]
    /\ UNCHANGED outside_lock

\* RLock.release: the lock is free once its owner has released it as often as
\* it acquired it.
LockRelease(t) ==
    /\ Running(t)
    /\ NextOp(t)[1] = "release"
    /\ LET l == NextOp(t)[2]
       IN  /\ lock_owner[l] = t
           /\ lock_count' = [lock_count EXCEPT ![l] = @ - 1]
           /\ lock_owner' = [lock_owner EXCEPT ![l] = IF lock_count[l] = 1 THEN "none" ELSE t]
    /\ lock_thread' = [lock_thread EXCEPT ![t] = Advance(t)]
    /\ UNCHANGED outside_lock

LockNext ==
    \/ \E t \in Threads : LockStart(t)
    \/ \E t \in Threads : LockAcquire(t)
    \/ \E t \in Threads : LockRelease(t)

LockSpec == LockInit /\ [][LockNext]_vars

\* The order of the locks.
LockRank(l) ==
    CASE l = "filter" -> 1 [] l = "buffer" -> 2 [] l = "transmitter" -> 3
      [] l = "access" -> 4 [] l = "refresh" -> 5

Holds(t) == {l \in Locks : lock_owner[l] = t}

\* A thread that waits for a lock another thread holds, and that thread.
Blocked(t) ==
    /\ Running(t)
    /\ NextOp(t)[1] = "acquire"
    /\ lock_owner[NextOp(t)[2]] \notin {"none", t}
WaitsFor(t) == lock_owner[NextOp(t)[2]]

\* The threads that a blocked thread waits for, directly or through others,
\* in at most n steps.
RECURSIVE WaitChain(_, _)
WaitChain(t, n) ==
    IF n = 0 \/ ~Blocked(t) THEN {}
    ELSE {WaitsFor(t)} \cup WaitChain(WaitsFor(t), n - 1)

\* C23: no reachable state is a deadlock (no thread waits, directly or
\* through other threads, for a lock that is held until it goes on itself,
\* and some thread that is on a path can take its next step), and a thread
\* acquires a lock only if every lock it holds is that lock or comes before
\* it in the order filter, buffer, transmitter, access token, refresh token.
C23_LockOrder ==
    /\ \A t \in Threads : t \notin WaitChain(t, Cardinality(Threads))
    /\ (\E t \in Threads : Running(t))
          => \E t \in Threads : Running(t) /\ ~Blocked(t)
    /\ \A t \in Threads :
          (Running(t) /\ NextOp(t)[1] = "acquire") =>
              \A l \in Holds(t) : LockRank(l) <= LockRank(NextOp(t)[2])

\* The linger daemon holds the buffer lock and waits for the transmitter
\* lock, which the worker holds; the filter caller waits for the buffer lock
\* and an auth caller holds both token locks.
C23_Witness ==
    /\ lock_owner["buffer"] = "linger daemon"
    /\ Blocked("linger daemon")
    /\ WaitsFor("linger daemon") = "worker"
    /\ Blocked("filter caller")
    /\ WaitsFor("filter caller") = "linger daemon"
    /\ Holds("auth caller") = {"access", "refresh"}

\* --------------------------------- expiry in the duplicate filter (FilterSpec)

\* The entries of an index whose last update is at least maximumEntryAgeS old
\* at time t (filter.py lines 80-91).
ExpiredAt(index, t) ==
    { <<index[k].series, index[k].ts>> :
          k \in {k \in 1..Len(index) : index[k].updateTs <= t - maximumEntryAgeS} }

\* entryKey2updateTs is ordered by non-decreasing update time.
IndexOrdered ==
    \A j, k \in 1..Len(entryKey2updateTs) :
        j < k => entryKey2updateTs[j].updateTs <= entryKey2updateTs[k].updateTs

\* The step is a writePoints call.
IsFilterCall == filter_last'.n = filter_last.n + 1

\* After the call no entry is left whose last update is at least
\* maximumEntryAgeS old.
ExpiredRemoved == ExpiredAt(entryKey2updateTs', now) = {}

\* A field of the first point of the call whose entry had expired when the
\* call began was looked up without a cached value and is forwarded, in the
\* first point of the list the output gets.
ExpiredForwarded ==
    (filter_last'.points # <<>> /\ filter_last'.points[1].time # None) =>
        LET p == filter_last'.points[1]
        IN  \A i \in 1..Len(p.fields) :
                <<SeriesKey(p, p.fields[i][1]), p.time>> \in ExpiredAt(entryKey2updateTs, now)
                    => /\ filter_last'.lookups[1][i].cached = NoValue
                       /\ filter_last'.calls # <<>>
                       /\ filter_last'.calls[1][1].time = p.time
                       /\ \E f \in 1..Len(filter_last'.calls[1][1].fields) :
                             filter_last'.calls[1][1].fields[f] = p.fields[i]

\* C31, as stated: every writePoints call removes every entry whose last
\* update is at least maximumEntryAgeS old before it looks anything up, a
\* field value written again after its entry expired is forwarded again, and
\* the index is ordered by non-decreasing update time in every state.
C31_Original ==
    /\ []IndexOrdered
    /\ [][IsFilterCall => (ExpiredRemoved /\ ExpiredForwarded)]_vars

\* C31, amended: the same for every writePoints call with at least one point
\* (a call with the empty list returns in lines 122-123 and removes nothing).
C31_Amended ==
    /\ []IndexOrdered
    /\ [][(IsFilterCall /\ filter_last'.points # <<>>)
              => (ExpiredRemoved /\ ExpiredForwarded)]_vars

\* A point is written again with the value that was cached for it, after its
\* entry expired: the last call forwarded it.
C31_Witness ==
    /\ filter_last.n >= 2
    /\ now >= maximumEntryAgeS
    /\ Len(filter_last.points) = 1
    /\ filter_last.points[1].time # None
    /\ filter_last.points[1].fields # <<>>
    /\ filter_last.lost
    /\ \A k \in 1..Len(filter_last.evictions) : FALSE
    /\ filter_last.lookups[1][1].cached = NoValue
    /\ filter_last.calls = << <<filter_last.points[1]>> >>
    /\ \A k \in 1..Len(entryKey2updateTs) : entryKey2updateTs[k].updateTs = now

\* --------------------------------- the worker and the outcome of an attempt (Spec)

\* The worker leaves __send (the process is not killed meanwhile).
AttemptEnds == worker_pc = "send" /\ worker_pc' # "send" /\ ~CrashStep

\* The wrapper of message m on the heap h, <<>> if it is not there.
OnHeap(h, m) == SelectSeq(h, LAMBDA w : w.subId = m)

\* C32: whatever an attempt ends with (a status code, a timeout, a connection
\* error, an exception of the authorization callback or of the session), the
\* worker is then at the end of the iteration of run, with the message
\* acknowledged, dropped or back on the heap for its next attempt (an
\* exception drops it), and goes on; the thread ends only where run returns
\* after the stop signal; a writeTelemessage call only appends the message.
C32_WorkerGoesOn ==
    /\ [][AttemptEnds =>
             LET m == tmw[1].subId
                 back == OnHeap(pending_messages', m)
             IN  /\ worker_pc' = "signal"
                 /\ tmw' = <<>>
                 /\ m \notin Ids(new_messages')
                 /\ Len(back) <= 1
                 /\ last_resp'[m] \in {"ack", "retry", "permanent", "exception"}
                 /\ last_resp'[m] = "ack" => outcome'[m] = "acked" /\ back = <<>>
                 /\ last_resp'[m] \in {"permanent", "exception"} =>
                       outcome'[m] = "dropped" /\ back = <<>>
                 /\ last_resp'[m] = "retry" =>
                       \/ outcome'[m] = "exhausted" /\ back = <<>>
                       \/ back = <<Rescheduled(tmw[1])>>
                       \/ max_heap_size # None /\ back = <<>>
                              /\ Len(pending_messages') = max_heap_size]_vars
    /\ [](worker_pc \in {"get_next", "wait", "drain", "dispatch", "send", "signal",
                         "final_snapshot", "done", "dead"})
    /\ [][worker_pc' = "done" /\ worker_pc # "done" =>
              worker_pc = "final_snapshot" /\ stop_signal]_vars
    /\ [][subIdCnt' # subIdCnt =>
              /\ new_messages' = Append(new_messages, TelemessageWrapper(now, subIdCnt'))
              /\ UNCHANGED <<worker, pending_messages, history>>]_vars

\* The first message was dropped for an exception of the authorization
\* callback, without a POST; the worker is sending the second message.
C32_Witness ==
    /\ last_resp[1] = "exception"
    /\ posts[1] = 0
    /\ outcome[1] = "dropped"
    /\ ~restarted
    /\ worker_pc = "send"
    /\ tmw[1].subId = 2

\* --------------------------------- failed authentication (RefreshSpec)

\* The statuses other than 200.
Non200 == AuthStatuses \ {"200", "timeout"}

\* The last call was a refreshtoken() whose login was answered with a status
\* other than 200, or an accesstoken() that was left by the
\* AuthenticationFailure of the login for its header.
LoginFailed ==
    \/ auth_last.op = "refreshtoken" /\ auth_last.logins > 0 /\ auth_last.resp \in Non200
    \/ auth_last.op = "accesstoken" /\ auth_last.resp = "authfail"

\* The last call was an accesstoken() whose GET /auth/accesstoken was
\* answered with a status other than 200.
AccessFailed ==
    auth_last.op = "accesstoken" /\ auth_last.gets > 0 /\ auth_last.resp \in Non200

\* Both caches are as they were before the last call.
BothUnchanged ==
    /\ refreshDtAndToken = auth_last.refresh
    /\ accessDtAndToken = auth_last.access

\* The next call asks the server again: the cache the call was to fill is
\* unset or too old, as it was.
AsksAgain ==
    IF auth_last.op = "refreshtoken" \/ auth_last.resp = "authfail"
    THEN NeedsLogin(refreshDtAndToken, auth_last.at)
    ELSE AccessTokenExpiredOn(auth_last.at)

\* C33, as stated: a login or an access-token retrieval answered with a status
\* other than 200 makes refreshtoken()/accesstoken() raise
\* AuthenticationFailure and leave both cached (timestamp, token) pairs
\* unchanged, and the next call authenticates again.
C33_Original ==
    (LoginFailed \/ AccessFailed) =>
        /\ auth_last.raised
        /\ auth_last.result = <<>>
        /\ BothUnchanged
        /\ AsksAgain

\* C33, amended: both raise AuthenticationFailure and the next call
\* authenticates again; a failed login leaves both pairs unchanged; a failed
\* access-token retrieval leaves the access pair unchanged, and the refresh
\* pair is unchanged or holds the token that a login or a renewal for the
\* header of the request got with a 200 during the call.
C33_Amended ==
    /\ LoginFailed =>
          auth_last.raised /\ auth_last.result = <<>> /\ BothUnchanged /\ AsksAgain
    /\ AccessFailed =>
          /\ auth_last.raised
          /\ auth_last.result = <<>>
          /\ accessDtAndToken = auth_last.access
          /\ AsksAgain
          /\ \/ refreshDtAndToken = auth_last.refresh
             \/ /\ auth_last.logins + auth_last.renews > 0
                /\ refreshDtAndToken.dt = auth_last.at
                /\ refreshDtAndToken.token = auth_issued
                /\ refreshDtAndToken.token # auth_last.refresh.token

\* An accesstoken() with an access token that is too old and a refresh token
\* older than 13 days: the login is answered 401.
C33_Witness ==
    /\ LoginFailed
    /\ auth_last.op = "accesstoken"
    /\ auth_last.raised
    /\ auth_last.access # NoneDtAndToken
    /\ auth_last.refresh # NoneDtAndToken
    /\ auth_last.logins = 1
    /\ auth_last.gets = 0
    /\ BothUnchanged

\* --------------------------------- a point without time (PointBufferSpec)

\* C34: the buffer accepts a point whose time is absent: the append does not
\* raise, the buffer then holds an entry for the point with the fields of the
\* point, and the line of that entry is the line of a point without
\* timestamp.
C34_Original ==
    (point.n > 0 /\ point.arg.time = None) =>
        LET p == point.arg
            k == KeyIndex(buffer.pointMap, CreatePointKey(p))
        IN  /\ ~point.raised
            /\ k # 0
            /\ \A i \in 1..Len(p.fields) : p.fields[i] \in Range(buffer.pointMap[k].fields)
            /\ ToTelemessageLines(buffer)[k] =
                  ToLineProtocol(Point(p.namespace, p.measurement, None,
                                       TagDict(Range(p.tags)), buffer.pointMap[k].fields))

\* ---------------------------------------------------------------------------
\* Concurrent callers of the buffered writer (buffered.py lines 168-227,
\* 282-310, 346-375).  WritersSpec is LingerSpec with any number of caller
\* threads: a thread may call writePoints or flush while another one still
\* holds the Telemessages it got from the dict and has yet to write to the
\* output; `messages` holds the Telemessages of all of them, and any of these
\* may be the next to reach the output.  The calls on the dict are sections
\* under PointBufferDict._lock.  writes.created counts the entries that the
\* calls made in the buffers: the entries in the dict and in the Telemessages
\* of the call when its loop ended, less those in the dict when it began.
\* ---------------------------------------------------------------------------
RECURSIVE NrEntries(_)
NrEntries(n2b) ==
    IF DOMAIN n2b = {} THEN 0
    ELSE LET key == CHOOSE key \in DOMAIN n2b : TRUE
         IN  Len(n2b[key].pointMap) + NrEntries([x \in DOMAIN n2b \ {key} |-> n2b[x]])

RECURSIVE MessagesEntries(_)
MessagesEntries(msgs) ==
    IF msgs = <<>> THEN 0 ELSE Len(Head(msgs).entries) + MessagesEntries(Tail(msgs))

RECURSIVE BagEntries(_, _)
BagEntries(bag, elems) ==
    IF elems = {} THEN 0
    ELSE LET e == CHOOSE e \in elems : TRUE
         IN  CopiesIn(e, bag) * Len(e.msg.entries) + BagEntries(bag, elems \ {e})

WritersInit ==
    /\ now = 0
    /\ TransmitterAbsent
    /\ PointBufferAbsent
    /\ FilterAbsent
    /\ AuthAbsent
    /\ FurtherAbsent
    /\ namespace2buffer = <<>>
    /\ dict_nrBytes = 0
    /\ linger_output = TRUE
    /\ linger_pc = "run"
    /\ linger_wakeup = None
    /\ messages = <<>>
    /\ writes = [n |-> 0, raised |-> FALSE, created |-> 0]
    /\ entered = {}
    /\ downstream = EmptyBag

\* The points the threads write: in the first namespace a point of one
\* field at two times, a point of two fields and a point without time, in the
\* second namespace one point; and the lists of one or two of them.
WritersPoints ==
    { Point("n1", <<"m">>, t, <<>>, << <<<<"f">>, IntValue(1)>> >>) : t \in {5, 6, None} }
    \cup { Point("n1", <<"m">>, 5, <<>>,
                 << <<<<"g">>, BoolValue(TRUE)>>, <<<<"f">>, IntValue(1)>> >>),
           Point("n2", <<"m">>, 5, <<>>, << <<<<"f">>, IntValue(1)>> >>) }
WritersPointLists ==
    { <<p>> : p \in WritersPoints } \cup { <<p, q>> : p \in WritersPoints, q \in WritersPoints }

\* The entries a writePoints call made.
CreatedBy(d) == (NrEntries(d.n2b) + MessagesEntries(d.messages)) - NrEntries(namespace2buffer)

\* writer.writePoints(points) by some thread (lines 291, 178-210).
WritersWritePoints ==
    /\ writes.n < MaxWrites
    /\ \E points \in WritersPointLists :
          LET d == AfterLoop(points)
          IN  /\ ~d.raised
              /\ writes' = [n |-> writes.n + 1, raised |-> FALSE,
                            created |-> writes.created + CreatedBy(d)]
              /\ entered' = entered \cup Range(d.appended)
              /\ IF d.nrBytes > maximumBufferSizeBytes
                 THEN /\ messages' = messages \o d.messages \o FlushMessages(d.n2b)
                      /\ namespace2buffer' = <<>>
                      /\ dict_nrBytes' = 0
                      /\ UNCHANGED linger_pc
                 ELSE /\ messages' = messages \o d.messages
                      /\ namespace2buffer' = d.n2b
                      /\ dict_nrBytes' = d.nrBytes
                      /\ linger_pc' = IF linger_pc = "wait_content" THEN "run" ELSE linger_pc
    /\ UNCHANGED <<now, linger_output, linger_wakeup, downstream, outside_linger>>

\* writer.writePoints(points) with a point without time: the exception of
\* createPointKey (line 31) leaves the call; what the loop did to the dict
\* stays, its local list of messages is gone.
WritersWritePointsRaises ==
    /\ writes.n < MaxWrites
    /\ \E points \in WritersPointLists :
          LET d == AfterLoop(points)
          IN  /\ d.raised
              /\ writes' = [n |-> writes.n + 1, raised |-> TRUE,
                            created |-> writes.created + CreatedBy(d)]
              /\ entered' = entered \cup Range(d.appended)
              /\ namespace2buffer' = d.n2b
              /\ dict_nrBytes' = d.nrBytes
    /\ UNCHANGED <<now, linger_output, linger_pc, linger_wakeup, messages, downstream,
                   outside_linger>>

\* self.output.writeTelemessage(message) by one of the threads (lines 293, 305).
WritersOutput ==
    /\ \E i \in 1..Len(messages) :
          /\ downstream' = downstream (+) SetToBag({[msg |-> messages[i], by |-> "caller"]})
          /\ messages' = SubSeq(messages, 1, i - 1) \o SubSeq(messages, i + 1, Len(messages))
    /\ UNCHANGED <<now, namespace2buffer, dict_nrBytes, linger_output, linger_pc, linger_wakeup,
                   writes, entered, outside_linger>>

\* writer._flush() by some thread (line 303, lines 221-227).
WritersFlush ==
    /\ DOMAIN namespace2buffer # {}
    /\ messages' = messages \o FlushMessages(namespace2buffer)
    /\ namespace2buffer' = <<>>
    /\ dict_nrBytes' = 0
    /\ UNCHANGED <<now, linger_output, linger_pc, linger_wakeup, writes, entered, downstream,
                   outside_linger>>

WritersNext ==
    \/ WritersWritePoints
    \/ WritersWritePointsRaises
    \/ WritersOutput
    \/ WritersFlush
    \/ LingerStop
    \/ LingerDaemon
    \/ LingerTick

WritersSpec == WritersInit /\ [][WritersNext]_vars

\* C35: every point written to the buffered writer is, merged with the
\* points of its key, in exactly one place: a buffer of the dict, a
\* Telemessage a caller is about to hand to the output, or a Telemessage that
\* was handed to the output; the entries in these places are as many as the
\* calls made, none lost and none twice, and once flush has run and no caller
\* holds a Telemessage every point written is in a Telemessage at the output.
C35_Original ==
    /\ writes.created = NrEntries(namespace2buffer) + MessagesEntries(messages)
                        + BagEntries(downstream, BagToSet(downstream))
    /\ \A e \in entered : HeldInDict(e) \/ HeldByCaller(e) \/ HandedDownstream(e)
    /\ (DOMAIN namespace2buffer = {} /\ messages = <<>>) =>
           \A e \in entered : HandedDownstream(e)

\* ============================ Concurrent callers of the duplicate filter
\* src/eniris/point/writer/filter.py, lines 111-179, called by two threads,
\* with a PointBuffer (src/eniris/point/writer/buffered.py, lines 98-110) as
\* the last-write-wins store behind the output.  A call updates the cache
\* under self.lock (lines 125-177) and hands its list out to
\* self.output.writePoints after the lock is released (lines 178-179).

CallerThreads == {"t1", "t2"}
CallerIdle == [pc |-> "idle", out |-> <<>>, ticket |-> 0]

\* The points the threads write: field a of one series at times 1 and 2 with
\* the values 1 and 2; and the lists of one point.
CallerPoints ==
    { Point("ns", <<"m">>, t, <<>>, << <<<<"a">>, IntValue(v)>> >>) : t \in {1, 2}, v \in {1, 2} }
CallerBatches == { <<p>> : p \in CallerPoints }

outside_callers == <<transmitter, linger_vars, auth_vars, lp_vars, direct_vars, lock_vars,
                     pool_vars>>

\* PointDuplicateFilter(output, ...), lines 60-75, its output writing to an
\* empty PointBuffer, and two threads that have not called yet.  filter_last
\* counts the calls that took the lock (their tickets) and lists the tickets
\* in the order in which their lists reached the output.
FilterCallersInit ==
    /\ now = 0
    /\ TransmitterAbsent
    /\ LingerAbsent
    /\ AuthAbsent
    /\ LpAbsent
    /\ DirectAbsent
    /\ LockAbsent
    /\ PoolAbsent
    /\ memory = <<>>
    /\ entryKey2updateTs = <<>>
    /\ filter_last = [n |-> 0, delivered |-> <<>>]
    /\ filter_written = {}
    /\ filter_removed = FALSE
    /\ buffer = PointBuffer("ns", 0)
    /\ point = Absent
    /\ caller = [t \in CallerThreads |-> CallerIdle]

\* Lines 122-177 of writePoints(points) by thread t: the part under self.lock.
\* With a list out that is not empty the thread goes on to line 179.
CallerWritePoints(t) ==
    /\ caller[t].pc = "idle"
    /\ filter_last.n < MaxFilterWrites
    /\ \E points \in CallerBatches :
          LET st0 == [memory |-> memory, index |-> entryKey2updateTs, out |-> <<>>,
                      updatedFields |-> <<>>, lookup |-> <<>>, lookups |-> <<>>,
                      evictions |-> <<>>, expired |-> {}]
              st == FilterLoop(DeleteExpiredEntries(st0, now), points, 1, now)
          IN  /\ memory' = st.memory
              /\ entryKey2updateTs' = st.index
              /\ filter_last' = [filter_last EXCEPT !.n = @ + 1]
              /\ filter_written' = filter_written \cup BatchEntries(points)
              /\ filter_removed' =
                    (\/ filter_removed
                     \/ st.expired # {}
                     \/ \E k \in 1..Len(st.evictions) : st.evictions[k].cause = "series")
              /\ caller' = [caller EXCEPT ![t] =
                               IF Len(st.out) > 0
                               THEN [pc |-> "output", out |-> st.out,
                                     ticket |-> filter_last.n + 1]
                               ELSE CallerIdle]
    /\ UNCHANGED <<now, buffer, point, outside_callers>>

\* The output appends the points of a list to its buffer, from point j on.
RECURSIVE AppendAll(_, _, _)
AppendAll(buf, points, j) ==
    IF j > Len(points) THEN buf
    ELSE AppendAll(BufferAppend(buf, points[j]), points, j + 1)

\* Lines 178-179 by thread t: self.output.writePoints(out), outside the lock.
CallerOutput(t) ==
    /\ caller[t].pc = "output"
    /\ buffer' = AppendAll(buffer, caller[t].out, 1)
    /\ filter_last' = [filter_last EXCEPT !.delivered = Append(@, caller[t].ticket)]
    /\ caller' = [caller EXCEPT ![t] = CallerIdle]
    /\ UNCHANGED <<now, memory, entryKey2updateTs, filter_written, filter_removed, point,
                   outside_callers>>

\* time.time() advances.
CallerTick ==
    /\ now < MaxFilterClock
    /\ now' = now + 1
    /\ UNCHANGED <<filter_vars, pointbuffer_vars, caller, outside_callers>>

FilterCallersNext ==
    \/ \E t \in CallerThreads : CallerWritePoints(t)
    \/ \E t \in CallerThreads : CallerOutput(t)
    \/ CallerTick

FilterCallersSpec == FilterCallersInit /\ [][FilterCallersNext]_vars

\* The value the buffer behind the output holds for an entry of the cache,
\* NoValue if it holds none.
DownstreamValue(seriesKey, ts) ==
    LET k == KeyIndex(buffer.pointMap, <<seriesKey[2], ts, seriesKey[3]>>)
        j == IF k = 0 THEN 0 ELSE FieldIndex(buffer.pointMap[k].fields, seriesKey[4])
    IN  IF j = 0 THEN NoValue ELSE buffer.pointMap[k].fields[j][2]

\* The lists reached the output in the order of their tickets.
DeliveredInOrder ==
    \A i \in 1..Len(filter_last.delivered) : \A j \in 1..Len(filter_last.delivered) :
       i < j => filter_last.delivered[i] < filter_last.delivered[j]

\* With no call under way, each cached value is the value the buffer holds.
CacheIsDownstream ==
    (\A t \in CallerThreads : caller[t].pc = "idle") =>
        \A seriesKey \in DOMAIN memory : \A k \in 1..Len(memory[seriesKey]) :
           DownstreamValue(seriesKey, memory[seriesKey][k].ts) = memory[seriesKey][k].value

\* C36: with concurrent callers the lists reach the output in the order in
\* which they updated the cache of the filter, so that, once the calls have
\* returned, the value cached for a (series, time) is the value the
\* last-write-wins buffer holds for it (a re-write of the cached value, which
\* the filter suppresses, never hides a different value downstream).
C36_Original == DeliveredInOrder /\ CacheIsDownstream

\* ======================================= Concurrent callers of ApiDriver
\* src/eniris/driver.py, lines 177-304: accesstoken(), refreshtoken() and
\* close() called by threads on one driver.  accesstoken() runs under
\* accessTokenLock, refreshtoken() under refreshTokenLock, close() under no
\* lock.  Each step reads or writes self.refreshDtAndToken or
\* self.accessDtAndToken once, or is one request.  The clock `now` counts
\* minutes; the refresh token ages of 7, 13 and 14 days are beyond it.

DriverThreads == {"t1", "t2", "closer"}
DriverOps(t) ==
    CASE t = "t1" -> {"accesstoken", "refreshtoken"}
      [] t = "t2" -> {"accesstoken"}
      [] t = "closer" -> {"close"}

\* Number of calls over a behaviour, and last value of the clock.
MaxDriverCalls == 3
MaxDriverClock == 3

\* How a call ended: what it returned, or the exception it raised.
NoResult == [kind |-> "none", value |-> <<>>]
Returned(value) == [kind |-> "returned", value |-> value]
Raised(exception) == [kind |-> exception, value |-> <<>>]

\* A thread: the method it runs and where it is (pc; back is where
\* refreshtoken() returns to), the locals currentDt of accesstoken() and of
\* refreshtoken(), retryNr of retryRequest; and the history of the call: the
\* GET /auth/accesstoken it made, whether the access token was unset or too
\* old when the call began, whether every answer was 200, and for
\* accesstoken() the threads that were in accesstoken() at the same time and
\* those whose call had taken accessTokenLock before this one took it.
DriverIdle ==
    [op |-> "none", pc |-> "idle", back |-> "idle", currentDt |-> 0, refreshDt |-> 0,
     retryNr |-> 0, gets |-> 0, result |-> NoResult, stale |-> FALSE, clean |-> TRUE,
     with |-> {}, after |-> {}]

InCall(t) == caller[t].pc \notin {"idle", "done"}

outside_driver == <<transmitter, pointbuffer_vars, linger_vars, filter_vars, lp_vars,
                    direct_vars, lock_count, lock_thread, pool_vars>>

\* ApiDriver(username, password, ...), lines 158-176: no token, two locks
\* that nobody holds.  auth_last counts the calls, the close() calls and the
\* logins.
DriverCallersInit ==
    /\ now = 0
    /\ TransmitterAbsent
    /\ PointBufferAbsent
    /\ LingerAbsent
    /\ FilterAbsent
    /\ LpAbsent
    /\ DirectAbsent
    /\ PoolAbsent
    /\ lock_count = Absent
    /\ lock_thread = Absent
    /\ refreshDtAndToken = NoneDtAndToken
    /\ accessDtAndToken = NoneDtAndToken
    /\ auth_issued = <<>>
    /\ auth_last = [n |-> 0, closes |-> 0, logins |-> 0]
    /\ lock_owner = [l \in {"access", "refresh"} |-> "none"]
    /\ caller = [t \in DriverThreads |-> DriverIdle]

\* A with-statement on a lock that does not wait.
LockFree_Always(l) == TRUE

\* with self.accessTokenLock / with self.refreshTokenLock (lines 183, 243):
\* the thread goes on once nobody holds the lock.
LockFree(l) == lock_owner[l] = "none"

\* The locks once thread t has left its with-statements.
Released(t) == [l \in DOMAIN lock_owner |-> IF lock_owner[l] = t THEN "none" ELSE lock_owner[l]]

\* Thread t ends its call with a result; its locals are gone.
Ended(t, result) ==
    [caller EXCEPT ![t].pc = "done", ![t].result = result, ![t].back = "idle",
                   ![t].refreshDt = 0, ![t].retryNr = 0]

\* Thread t calls a method of the driver.
DriverCall(t) ==
    /\ ~InCall(t)
    /\ auth_last.n < MaxDriverCalls
    /\ \E op \in DriverOps(t) :
          /\ caller' = [u \in DriverThreads |->
                           IF u = t
                           THEN [DriverIdle EXCEPT
                                    !.op = op,
                                    !.pc = CASE op = "accesstoken" -> "a_lock"
                                             [] op = "refreshtoken" -> "r_lock"
                                             [] op = "close" -> "c_check",
                                    !.back = "r_done",
                                    !.stale = AccessTokenExpired(now),
                                    !.with = IF op # "accesstoken" THEN {}
                                             ELSE {v \in DriverThreads \ {t} :
                                                      /\ InCall(v)
                                                      /\ caller[v].op = "accesstoken"}]
                           ELSE [caller[u] EXCEPT
                                    !.with = IF InCall(u) /\ op = "accesstoken"
                                                /\ caller[u].op = "accesstoken"
                                             THEN @ \cup {t} ELSE @ \ {t},
                                    !.after = @ \ {t}]]
          /\ auth_last' = [auth_last EXCEPT !.n = @ + 1,
                                            !.closes = IF op = "close" THEN @ + 1 ELSE @]
    /\ UNCHANGED <<now, refreshDtAndToken, accessDtAndToken, auth_issued, lock_owner,
                   outside_driver>>

\* accesstoken(), lines 243-245: the lock, currentDt, and the test whether
\* there is a token.  Without one the request begins with its header (lines
\* 68-69: refreshtoken()).
AccesstokenLock(t) ==
    /\ caller[t].pc = "a_lock"
    /\ LockFree("access")
    /\ lock_owner' = [lock_owner EXCEPT !["access"] = t]
    /\ caller' = [caller EXCEPT
                     ![t].currentDt = now,
                     ![t].pc = IF accessDtAndToken = NoneDtAndToken THEN "r_lock" ELSE "a_age",
                     ![t].back = "a_send",
                     ![t].after = {v \in caller[t].with : caller[v].pc # "a_lock"}]
    /\ UNCHANGED <<now, auth_vars, outside_driver>>

\* accesstoken(), line 246: self.accessDtAndToken[0], a TypeError if the
\* token has been unset since line 245.
AccesstokenAge(t) ==
    /\ caller[t].pc = "a_age"
    /\ IF accessDtAndToken = NoneDtAndToken
       THEN /\ caller' = Ended(t, Raised("TypeError"))
            /\ lock_owner' = Released(t)
       ELSE /\ caller' = [caller EXCEPT
                             ![t].pc = IF AccessTokenExpired(caller[t].currentDt)
                                       THEN "r_lock" ELSE "a_ret"]
            /\ UNCHANGED lock_owner
    /\ UNCHANGED <<now, auth_vars, outside_driver>>

\* accesstoken(), lines 249-270: the GET /auth/accesstoken is answered.  A
\* retry begins with its header again; a 200 is stored with currentDt.
AccesstokenSend(t) ==
    /\ caller[t].pc = "a_send"
    /\ caller[t].op = "accesstoken"
    /\ \E resp \in AuthStatuses :
          LET me == [caller[t] EXCEPT !.gets = @ + 1, !.clean = @ /\ resp = "200"]
          IN  IF (resp = "timeout" \/ resp \in DEFAULT_RETRY_CODES)
                 /\ caller[t].retryNr + 1 <= driver_maximumRetries
              THEN /\ caller' = [caller EXCEPT
                                    ![t] = [me EXCEPT !.retryNr = @ + 1, !.pc = "r_lock"]]
                   /\ UNCHANGED <<accessDtAndToken, auth_issued, lock_owner>>
              ELSE IF resp # "200"
              THEN /\ caller' = [caller EXCEPT
                                    ![t] = [me EXCEPT !.pc = "done", !.back = "idle",
                                                      !.refreshDt = 0, !.retryNr = 0,
                                                      !.result = Raised("AuthenticationFailure")]]
                   /\ lock_owner' = Released(t)
                   /\ UNCHANGED <<accessDtAndToken, auth_issued>>
              ELSE /\ caller' = [caller EXCEPT ![t] = [me EXCEPT !.pc = "a_ret"]]
                   /\ accessDtAndToken' = [dt |-> caller[t].currentDt,
                                           token |-> Len(auth_issued) + 1]
                   /\ auth_issued' = Append(auth_issued, now)
                   /\ UNCHANGED lock_owner
    /\ UNCHANGED <<now, refreshDtAndToken, auth_last, outside_driver>>

\* accesstoken(), line 271: self.accessDtAndToken[1], a TypeError if the
\* token has been unset.
AccesstokenReturn(t) ==
    /\ caller[t].pc = "a_ret"
    /\ caller' = Ended(t, IF accessDtAndToken = NoneDtAndToken THEN Raised("TypeError")
                          ELSE Returned(Bearer(accessDtAndToken.token)))
    /\ lock_owner' = Released(t)
    /\ UNCHANGED <<now, auth_vars, outside_driver>>

\* refreshtoken(), lines 183-187: the lock, currentDt, and the test whether
\* there is a token.
RefreshtokenLock(t) ==
    /\ caller[t].pc = "r_lock"
    /\ LockFree("refresh")
    /\ lock_owner' = [lock_owner EXCEPT !["refresh"] = t]
    /\ caller' = [caller EXCEPT
                     ![t].refreshDt = now,
                     ![t].pc = IF refreshDtAndToken = NoneDtAndToken THEN "r_login"
                               ELSE "r_age"]
    /\ UNCHANGED <<now, auth_vars, outside_driver>>

\* refreshtoken(), lines 191-209: the login, stored if it is answered 200,
\* AuthenticationFailure otherwise.
RefreshtokenLogin(t) ==
    /\ caller[t].pc = "r_login"
    /\ \E login \in AuthAnswers :
          LET rq == RetryRequest(login, 0)
              me == [caller[t] EXCEPT !.clean = @ /\ login[1] = "200"]
          IN  IF rq.resp = "200"
              THEN /\ refreshDtAndToken' = [dt |-> caller[t].refreshDt,
                                            token |-> auth_last.logins + 1]
                   /\ auth_last' = [auth_last EXCEPT !.logins = @ + 1]
                   /\ caller' = [caller EXCEPT ![t] = [me EXCEPT !.pc = "r_ret"]]
                   /\ UNCHANGED lock_owner
              ELSE /\ caller' = [caller EXCEPT
                                    ![t] = [me EXCEPT !.pc = "done", !.back = "idle",
                                                      !.refreshDt = 0, !.retryNr = 0,
                                                      !.result = Raised("AuthenticationFailure")]]
                   /\ lock_owner' = Released(t)
                   /\ UNCHANGED <<refreshDtAndToken, auth_last>>
    /\ UNCHANGED <<now, accessDtAndToken, auth_issued, outside_driver>>

\* refreshtoken(), lines 188 and 211: self.refreshDtAndToken[0], a TypeError
\* if the token has been unset since line 187.
RefreshtokenAge(t) ==
    /\ caller[t].pc = "r_age"
    /\ IF refreshDtAndToken = NoneDtAndToken
       THEN /\ caller' = Ended(t, Raised("TypeError"))
            /\ lock_owner' = Released(t)
       ELSE /\ caller' = [caller EXCEPT ![t].pc = "r_ret"]
            /\ UNCHANGED lock_owner
    /\ UNCHANGED <<now, auth_vars, outside_driver>>

\* refreshtoken(), line 236: self.refreshDtAndToken[1], a TypeError if the
\* token has been unset; else the header goes to the caller: the client, or
\* retryRequest of accesstoken() or close().
RefreshtokenReturn(t) ==
    /\ caller[t].pc = "r_ret"
    /\ IF refreshDtAndToken = NoneDtAndToken
       THEN /\ caller' = Ended(t, Raised("TypeError"))
            /\ lock_owner' = Released(t)
       ELSE /\ caller' = IF caller[t].back = "r_done"
                         THEN Ended(t, Returned(Bearer(refreshDtAndToken.token)))
                         ELSE [caller EXCEPT ![t].pc = caller[t].back]
            /\ lock_owner' = [lock_owner EXCEPT !["refresh"] = "none"]
    /\ UNCHANGED <<now, auth_vars, outside_driver>>

\* close(), lines 275-282: nothing without refresh token; else the logout,
\* which begins with its header.
CloseCheck(t) ==
    /\ caller[t].pc = "c_check"
    /\ caller' = IF refreshDtAndToken = NoneDtAndToken THEN Ended(t, Returned(<<>>))
                 ELSE [caller EXCEPT ![t].pc = "r_lock", ![t].back = "c_send"]
    /\ UNCHANGED <<now, auth_vars, lock_owner, outside_driver>>

\* close(), lines 283-304: the POST /auth/logout is answered.
CloseSend(t) ==
    /\ caller[t].pc = "c_send"
    /\ caller[t].op = "close"
    /\ \E resp \in AuthStatuses :
          caller' = IF (resp = "timeout" \/ resp \in DEFAULT_RETRY_CODES)
                       /\ caller[t].retryNr + 1 <= driver_maximumRetries
                    THEN [caller EXCEPT ![t].retryNr = @ + 1, ![t].pc = "r_lock"]
                    ELSE IF resp \in {"204", "401"}
                    THEN [caller EXCEPT ![t].pc = "c_unset_refresh"]
                    ELSE Ended(t, Raised("AuthenticationFailure"))
    /\ UNCHANGED <<now, auth_vars, lock_owner, outside_driver>>

\* close(), line 297: self.refreshDtAndToken = None.
CloseUnsetRefresh(t) ==
    /\ caller[t].pc = "c_unset_refresh"
    /\ refreshDtAndToken' = NoneDtAndToken
    /\ caller' = [caller EXCEPT ![t].pc = "c_unset_access"]
    /\ UNCHANGED <<now, accessDtAndToken, auth_issued, auth_last, lock_owner, outside_driver>>

\* close(), line 298: self.accessDtAndToken = None.
CloseUnsetAccess(t) ==
    /\ caller[t].pc = "c_unset_access"
    /\ accessDtAndToken' = NoneDtAndToken
    /\ caller' = Ended(t, Returned(<<>>))
    /\ UNCHANGED <<now, refreshDtAndToken, auth_issued, auth_last, lock_owner, outside_driver>>

\* datetime.datetime.now() advances.
DriverTick ==
    /\ now < MaxDriverClock
    /\ now' = now + 1
    /\ UNCHANGED <<auth_vars, lock_owner, caller, outside_driver>>

DriverCallersNext ==
    \/ \E t \in DriverThreads : DriverCall(t)
    \/ \E t \in DriverThreads : AccesstokenLock(t)
    \/ \E t \in DriverThreads : AccesstokenAge(t)
    \/ \E t \in DriverThreads : AccesstokenSend(t)
    \/ \E t \in DriverThreads : AccesstokenReturn(t)
    \/ \E t \in DriverThreads : RefreshtokenLock(t)
    \/ \E t \in DriverThreads : RefreshtokenLogin(t)
    \/ \E t \in DriverThreads : RefreshtokenAge(t)
    \/ \E t \in DriverThreads : RefreshtokenReturn(t)
    \/ \E t \in DriverThreads : CloseCheck(t)
    \/ \E t \in DriverThreads : CloseSend(t)
    \/ \E t \in DriverThreads : CloseUnsetRefresh(t)
    \/ \E t \in DriverThreads : CloseUnsetAccess(t)
    \/ DriverTick

DriverCallersSpec == DriverCallersInit /\ [][DriverCallersNext]_vars

\* Two accesstoken() calls that were under way at the same time, both begun
\* with the access token unset or too old, every request answered 200, no
\* close() called, both ended.
ConcurrentFetch(t, u) ==
    /\ t # u
    /\ caller[t].op = "accesstoken" /\ caller[u].op = "accesstoken"
    /\ caller[t].pc = "done" /\ caller[u].pc = "done"
    /\ u \in caller[t].with /\ t \in caller[u].with
    /\ caller[t].stale /\ caller[u].stale
    /\ caller[t].clean /\ caller[u].clean
    /\ auth_last.closes = 0

OneGetSameToken(t, u) ==
    /\ caller[t].gets + caller[u].gets = 1
    /\ caller[t].result.kind = "returned"
    /\ caller[t].result = caller[u].result

\* C37, as stated: concurrent accesstoken() calls made while the access token
\* is unset or older than 2 minutes issue exactly one GET /auth/accesstoken
\* (answered 200) and return the same token.
C37_Original ==
    \A t \in DriverThreads : \A u \in DriverThreads :
       ConcurrentFetch(t, u) => OneGetSameToken(t, u)

\* C37, amended: of two such calls, the one that takes the lock first and
\* finds the token still unset or too old issues exactly one GET; the other,
\* if it takes the lock at most 2 minutes after the first took it, issues none
\* and returns the same token.  (The token is stored with the time at which
\* the fetching call took the lock: a call that takes the lock more than 2
\* minutes later finds it too old and issues a GET of its own.)
C37_Amended ==
    \A t \in DriverThreads : \A u \in DriverThreads :
       (/\ ConcurrentFetch(t, u)
        /\ t \in caller[u].after
        /\ caller[t].gets >= 1
        /\ caller[u].currentDt - caller[t].currentDt <= AccessTokenLifetime)
           => /\ OneGetSameToken(t, u)
              /\ caller[u].gets = 0

\* Two concurrent calls ended: one made the GET, the other waited for the
\* lock and returned the same token without a request.
C37_Witness ==
    /\ ConcurrentFetch("t1", "t2")
    /\ caller["t1"].gets = 1 /\ caller["t2"].gets = 0
    /\ "t1" \in caller["t2"].after
    /\ caller["t2"].currentDt > caller["t1"].currentDt
    /\ caller["t1"].result = caller["t2"].result
    /\ caller["t1"].result.kind = "returned"

\* C38: with close() running at the same time, accesstoken() and
\* refreshtoken() return a 'Bearer <token>' string or raise
\* AuthenticationFailure: they never find the token unset after they tested or
\* stored it.
C38_Original ==
    \A t \in DriverThreads :
       (caller[t].pc = "done" /\ caller[t].op \in {"accesstoken", "refreshtoken"}) =>
           \/ caller[t].result.kind = "AuthenticationFailure"
           \/ /\ caller[t].result.kind = "returned"
              /\ Len(caller[t].result.value) = 2
              /\ caller[t].result.value[1] = "Bearer "

\* ============================================== PooledTelemessageWriter
\* src/eniris/telemessage/writer/pooled.py: the queue of wrappers (lines
\* 206-291), the pool of workers (lines 318-360) and the writer (lines
\* 523-531), without snapshot folder.  The clock `now` counts seconds.  The
\* queue takes the constructor arguments maximumRetries, initialRetryDelayS
\* and maximumRetryDelayS of the transmitter above.

\* poolSize = 2.
PoolWorkers == {"w1", "w2"}

\* Number of messages written over a behaviour, and last value of the clock.
MaxPoolMsgs == 2
MaxPoolClock == 4

\* The messages a client writes: a Telemessage (telemessage.py lines 29-37:
\* the attributes parameters, data and headers), or an object that also has
\* the attribute lines, which line 334 reads.
PoolMessages == {"Telemessage", "lines"}

\* What becomes of a request (lines 326-360): the status code of the answer
\* (204; 503, which is in retryStatusCodes; 400; 299, for which
\* http.HTTPStatus has no member), requests.Timeout, requests.ConnectionError,
\* or another exception, of session.post or of authorizationHeaderFunction.
PoolResponses == {"204", "503", "400", "299", "Timeout", "ConnectionError", "Exception"}

\* TelemessageWrapper.id (lines 57-59).
WrapperId(m) == <<wrappers[m].creationDt, m>>

\* The wrapper as the heap holds it.
HeapItem(m) ==
    [subId |-> m, creationDt |-> wrappers[m].creationDt,
     scheduledDt |-> wrappers[m].scheduledDt, retryNr |-> wrappers[m].retryNr]

InWaiting(m) == \E i \in 1..Len(waitingMessages) : waitingMessages[i].subId = m
InActive(m) == WrapperId(m) \in activeMessages

outside_pool == <<transmitter, pointbuffer_vars, linger_vars, filter_vars, auth_vars,
                  lp_vars, direct_vars, lock_vars, caller>>

\* PooledTelemessageWriter(poolSize=2, ...), lines 481-521, and
\* TelemessageWrapperQueue.__init__, lines 207-222: no message, the workers
\* started.
PoolInit ==
    /\ now = 0
    /\ TransmitterAbsent
    /\ PointBufferAbsent
    /\ LingerAbsent
    /\ FilterAbsent
    /\ AuthAbsent
    /\ LpAbsent
    /\ DirectAbsent
    /\ LockAbsent
    /\ CallerAbsent
    /\ waitingMessages = <<>>
    /\ activeMessages = {}
    /\ isStopping = FALSE
    /\ wrappers = <<>>
    /\ pool = [w \in PoolWorkers |-> [pc |-> "take", tmw |-> 0]]
    /\ flushing = [pc |-> "idle", content |-> <<>>]

\* An addWaiting that leaves the wrapper in the active messages.
AddWaitingActive_Keeps(active, id) == active

\* addWaiting, lines 249-251: the wrapper leaves the active messages.
AddWaitingActive(active, id) == active \ {id}

\* writeTelemessage(message), lines 523-527: a new wrapper (lines 34-55:
\* created and scheduled now) goes to addWaiting (lines 247-265).
PoolWriteTelemessage ==
    /\ Len(wrappers) < MaxPoolMsgs
    /\ now < MaxPoolClock
    /\ ~isStopping
    /\ \E kind \in PoolMessages :
          LET m == Len(wrappers) + 1
          IN  /\ wrappers' = Append(wrappers, [kind |-> kind, creationDt |-> now,
                                               scheduledDt |-> now, retryNr |-> 0,
                                               isFinished |-> FALSE])
              /\ activeMessages' = AddWaitingActive(activeMessages, <<now, m>>)
              /\ waitingMessages' = HeapPush(waitingMessages, TelemessageWrapper(now, m))
    /\ UNCHANGED <<now, isStopping, pool, flushing, outside_pool>>

\* onWaitingToActive, lines 228-245, by worker w: the first waiting message
\* becomes active once its time has passed; without waiting message the
\* worker ends if the queue is stopping, and waits otherwise.
PoolTake(w) ==
    /\ pool[w].pc = "take"
    /\ IF Len(waitingMessages) > 0
       THEN LET first == waitingMessages[1]
            IN  /\ first.scheduledDt - now < 0
                /\ waitingMessages' = HeapPopRest(waitingMessages)
                /\ activeMessages' = activeMessages \cup {<<first.creationDt, first.subId>>}
                /\ pool' = [pool EXCEPT ![w] = [pc |-> "post", tmw |-> first.subId]]
       ELSE /\ isStopping
            /\ pool' = [pool EXCEPT ![w] = [pc |-> "stopped", tmw |-> 0]]
            /\ UNCHANGED <<waitingMessages, activeMessages>>
    /\ UNCHANGED <<now, isStopping, wrappers, flushing, outside_pool>>

\* What lines 326-360 do with the message of a request: a Telemessage has no
\* attribute lines, so that line 334 raises AttributeError before the request
\* is made (an exception of lines 357-360); with a status code that is neither
\* 204 nor in retryStatusCodes line 349 logs an error, unless
\* HTTPStatus(status_code) raises ValueError.
PoolOutcome(kind, resp) ==
    CASE kind = "Telemessage" -> "finish"
      [] resp = "204" -> "finish"
      [] resp \in retryStatusCodes \cup {"Timeout", "ConnectionError"} -> "reschedule"
      [] resp = "400" -> "log"
      [] OTHER -> "finish"

\* run, lines 326-360, by worker w: the request for its message is answered.
\* finish (lines 179-183) marks the wrapper and goes on to removeActive;
\* reschedule (lines 158-177) gives it a later time and goes on to
\* addWaiting, or finishes it when the retries are used up.
PoolPost(w) ==
    /\ pool[w].pc = "post"
    /\ \E resp \in PoolResponses :
          LET m == pool[w].tmw
              todo == PoolOutcome(wrappers[m].kind, resp)
              retry == todo = "reschedule" /\ MayRetry(wrappers[m])
          IN  /\ retry => now + RetryDelay(wrappers[m].retryNr) < MaxPoolClock
              /\ wrappers' =
                    IF retry
                    THEN [wrappers EXCEPT
                             ![m].scheduledDt = now + RetryDelay(wrappers[m].retryNr),
                             ![m].retryNr = @ + 1]
                    ELSE IF todo = "log" THEN wrappers
                    ELSE [wrappers EXCEPT ![m].isFinished = TRUE]
              /\ pool' = [pool EXCEPT ![w] =
                             IF retry THEN [pc |-> "add", tmw |-> m]
                             ELSE IF todo = "log" THEN [pc |-> "take", tmw |-> 0]
                             ELSE [pc |-> "remove", tmw |-> m]]
    /\ UNCHANGED <<now, waitingMessages, activeMessages, isStopping, flushing, outside_pool>>

\* removeActive, lines 224-226, called by finish (line 184): del of the id,
\* a KeyError if it is not there.
PoolRemoveActive(w) ==
    /\ pool[w].pc = "remove"
    /\ IF InActive(pool[w].tmw)
       THEN /\ activeMessages' = activeMessages \ {WrapperId(pool[w].tmw)}
            /\ pool' = [pool EXCEPT ![w] = [pc |-> "take", tmw |-> 0]]
       ELSE /\ pool' = [pool EXCEPT ![w] = [pc |-> "KeyError", tmw |-> 0]]
            /\ UNCHANGED activeMessages
    /\ UNCHANGED <<now, waitingMessages, isStopping, wrappers, flushing, outside_pool>>

\* addWaiting, lines 247-265, called by reschedule (line 177).
PoolAddWaiting(w) ==
    /\ pool[w].pc = "add"
    /\ activeMessages' = AddWaitingActive(activeMessages, WrapperId(pool[w].tmw))
    /\ waitingMessages' = HeapPush(waitingMessages, HeapItem(pool[w].tmw))
    /\ pool' = [pool EXCEPT ![w] = [pc |-> "take", tmw |-> 0]]
    /\ UNCHANGED <<now, isStopping, wrappers, flushing, outside_pool>>

\* The subIds of a set of ids, in rising order.
RECURSIVE SubIdsInOrder(_)
SubIdsInOrder(ids) ==
    IF ids = {} THEN <<>>
    ELSE LET first == CHOOSE id \in ids : \A other \in ids : id[2] <= other[2]
         IN  <<first[2]>> \o SubIdsInOrder(ids \ {first})

\* content(), lines 281-283: the waiting messages, then the active ones.
PoolContent ==
    [i \in 1..Len(waitingMessages) |-> waitingMessages[i].subId]
    \o SubIdsInOrder(activeMessages)

\* flush(), lines 529-531: the content of the queue is taken ...
PoolFlushCall ==
    /\ flushing.pc # "waiting"
    /\ ~isStopping
    /\ wrappers # <<>>
    /\ flushing' = [pc |-> "waiting", content |-> PoolContent]
    /\ UNCHANGED <<now, waitingMessages, activeMessages, isStopping, wrappers, pool,
                   outside_pool>>

\* ... tmw.wait() (lines 190-193) returns for a wrapper that is finished ...
PoolFlushWait ==
    /\ flushing.pc = "waiting"
    /\ flushing.content # <<>>
    /\ wrappers[Head(flushing.content)].isFinished
    /\ flushing' = [flushing EXCEPT !.content = Tail(@)]
    /\ UNCHANGED <<now, waitingMessages, activeMessages, isStopping, wrappers, pool,
                   outside_pool>>

\* ... and after the last one flush() returns.
PoolFlushReturn ==
    /\ flushing.pc = "waiting"
    /\ flushing.content = <<>>
    /\ flushing' = [flushing EXCEPT !.pc = "returned"]
    /\ UNCHANGED <<now, waitingMessages, activeMessages, isStopping, wrappers, pool,
                   outside_pool>>

\* __del__, lines 533-535: queue.stop() (lines 285-289), when no call of the
\* writer is under way.
PoolStop ==
    /\ ~isStopping
    /\ flushing.pc # "waiting"
    /\ isStopping' = TRUE
    /\ UNCHANGED <<now, waitingMessages, activeMessages, wrappers, pool, flushing,
                   outside_pool>>

\* time.time() advances.
PoolTick ==
    /\ now < MaxPoolClock
    /\ now' = now + 1
    /\ UNCHANGED <<pool_vars, outside_pool>>

PoolWorker(w) ==
    \/ PoolTake(w)
    \/ PoolPost(w)
    \/ PoolRemoveActive(w)
    \/ PoolAddWaiting(w)

PoolNext ==
    \/ PoolWriteTelemessage
    \/ \E w \in PoolWorkers : PoolWorker(w)
    \/ PoolFlushCall
    \/ PoolFlushWait
    \/ PoolFlushReturn
    \/ PoolStop
    \/ PoolTick

PoolSpec == PoolInit /\ [][PoolNext]_vars

\* The threads run, the backend answers every request, time passes.
PoolFairSpec ==
    /\ PoolSpec
    /\ \A w \in PoolWorkers :
          /\ WF_vars(PoolTake(w))
          /\ WF_vars(PoolPost(w))
          /\ WF_vars(PoolRemoveActive(w))
          /\ WF_vars(PoolAddWaiting(w))
    /\ WF_vars(PoolFlushWait)
    /\ WF_vars(PoolFlushReturn)
    /\ WF_vars(PoolTick)

\* The workers that have taken wrapper m and have not given it back.
Holders(m) == {w \in PoolWorkers : pool[w].tmw = m}

\* C39: every wrapper that is not finished is either in the waiting heap,
\* once, or in the active map, never in both and never in neither; a wrapper
\* is in the hands of at most one worker, and of one only while it is active:
\* no message is POSTed by two workers at the same time.
C39_OneOwner ==
    /\ \A m \in 1..Len(wrappers) :
          /\ ~wrappers[m].isFinished => (InWaiting(m) /\ ~InActive(m)) \/ (InActive(m) /\ ~InWaiting(m))
          /\ Cardinality({i \in 1..Len(waitingMessages) : waitingMessages[i].subId = m}) <= 1
          /\ Cardinality(Holders(m)) <= 1
          /\ Holders(m) # {} => InActive(m) /\ ~InWaiting(m)
    /\ \A w \in PoolWorkers : pool[w].pc # "KeyError"
    /\ \A w \in PoolWorkers : \A v \in PoolWorkers :
          (w # v /\ pool[w].pc = "post" /\ pool[v].pc = "post") => pool[w].tmw # pool[v].tmw

\* Both workers are POSTing, each its own message, one of them for the second
\* time after a reschedule.
C39_Witness ==
    /\ pool["w1"].pc = "post" /\ pool["w2"].pc = "post"
    /\ pool["w1"].tmw # pool["w2"].tmw
    /\ wrappers[pool["w1"].tmw].retryNr > 0
    /\ activeMessages = {WrapperId(pool["w1"].tmw), WrapperId(pool["w2"].tmw)}

\* Wrapper m is waiting again, or finished and out of the active map.
Settled(m) ==
    /\ m <= Len(wrappers)
    /\ InWaiting(m) \/ (wrappers[m].isFinished /\ ~InActive(m))

\* C40: a message taken by a worker is in the end waiting again or finished
\* and out of the active map, whatever the answer to its request; and a
\* flush() that has begun returns.
C40_Original ==
    /\ \A w \in PoolWorkers : \A m \in 1..MaxPoolMsgs :
          (pool[w].pc = "post" /\ pool[w].tmw = m) ~> Settled(m)
    /\ (flushing.pc = "waiting") ~> (flushing.pc = "returned")

====
